---- MODULE Spec2Model ----
(***************************************************************************)
(* Model of nidavellir's environment provisioning: the port allocator and  *)
(* the network allocator of src/docker/mod.rs, the service launcher, the   *)
(* create_environment, list_environments and create_index use cases of     *)
(* src/api/model.rs over the connection pool of src/state/mod.rs, and the  *)
(* conversion of store errors of src/db.                                   *)
(*                                                                         *)
(* Strings the code formats and parses (subnets, network bases) are        *)
(* sequences of one-character strings, so that format!/trim/parse are      *)
(* modelled by what they do.                                               *)
(***************************************************************************)
EXTENDS Integers, Sequences, FiniteSets, TLC

VARIABLES
    runs,        \* one record per create_environment request (its locals and position)
    networks,    \* the engine's networks, in creation order
    containers,  \* the engine's containers
    images,      \* the images the engine has pulled
    occupied,    \* host ports on which TcpListener::bind fails
    store,       \* committed Environment rows, in the store's order
    indexes,     \* committed Index rows, in the store's order
    reqs,        \* one record per listEnvironments / createIndex request
    arg,         \* input of the function under test (allocators, error conversion)
    ret          \* its result (kind "none" until computed)

vars == <<runs, networks, containers, images, occupied, store, indexes, reqs, arg, ret>>

-----------------------------------------------------------------------------
(* Bounds of the model *)

\* requests handled in one behaviour
MaxRuns == 2
\* longest list of subnets handed to the network allocator under test
MaxSubnets == 3
\* occupied ports drawn past the scanned prefix in the port allocator under test
MaxExtra == 3

-----------------------------------------------------------------------------
(* Strings *)

Digits == <<"0", "1", "2", "3", "4", "5", "6", "7", "8", "9">>

\* format!("{}", n) for an unsigned integer
RECURSIVE FormatNat(_)
FormatNat(n) ==
    IF n < 10 THEN <<Digits[n + 1]>>
    ELSE FormatNat(n \div 10) \o <<Digits[(n % 10) + 1]>>

IsDigit(c) == \E d \in 0..9 : Digits[d + 1] = c
DigitVal(c) == CHOOSE d \in 0..9 : Digits[d + 1] = c

U16Max == 65535

\* the digits of s folded left to right; -1 on a non-digit or on u16 overflow
RECURSIVE ParseDigits(_, _)
ParseDigits(s, acc) ==
    IF s = <<>> THEN acc
    ELSE IF ~IsDigit(Head(s)) THEN -1
    ELSE LET v == acc * 10 + DigitVal(Head(s))
         IN IF v > U16Max THEN -1 ELSE ParseDigits(Tail(s), v)

\* str::parse::<u16>().ok(): -1 stands for None
ParseU16(s) ==
    LET body == IF s # <<>> /\ Head(s) = "+" THEN Tail(s) ELSE s
    IN IF body = <<>> THEN -1 ELSE ParseDigits(body, 0)

StartsWith(s, p) == Len(s) >= Len(p) /\ SubSeq(s, 1, Len(p)) = p
EndsWith(s, p) == Len(s) >= Len(p) /\ SubSeq(s, Len(s) - Len(p) + 1, Len(s)) = p

\* str::trim_start_matches: every leading repetition of p is removed
RECURSIVE TrimStartMatches(_, _)
TrimStartMatches(s, p) ==
    IF StartsWith(s, p) THEN TrimStartMatches(SubSeq(s, Len(p) + 1, Len(s)), p) ELSE s

\* str::trim_end_matches: every trailing repetition of p is removed
RECURSIVE TrimEndMatches(_, _)
TrimEndMatches(s, p) ==
    IF EndsWith(s, p) THEN TrimEndMatches(SubSeq(s, 1, Len(s) - Len(p)), p) ELSE s

Prefix172 == <<"1", "7", "2", ".">>
SuffixSubnet == <<".", "0", ".", "0", "/", "1", "6">>
SuffixGateway == <<".", "0", ".", "1">>

\* format!("172.{}", res)
FormatBase(res) == Prefix172 \o FormatNat(res)
\* format!("{}.0.0/16", ip_range_base)
FormatSubnet(base) == base \o SuffixSubnet
\* format!("{}.0.1", ip_range_base)
FormatGateway(base) == base \o SuffixGateway

-----------------------------------------------------------------------------
(* Network allocator: get_network_base *)

\* u16 addition as the release build computes it
U16Add(a, b) == (a + b) % (U16Max + 1)

\* the second octet the code reads out of one subnet string, -1 when it reads none
SubnetId(subnet) == ParseU16(TrimEndMatches(TrimStartMatches(subnet, Prefix172), SuffixSubnet))

\* subnets.iter().filter_map(..).collect()
RECURSIVE ParseIds(_)
ParseIds(subnets) ==
    IF subnets = <<>> THEN <<>>
    ELSE LET id == SubnetId(Head(subnets))
         IN (IF id = -1 THEN <<>> ELSE <<id>>) \o ParseIds(Tail(subnets))

RECURSIVE Insert(_, _)
Insert(x, sorted) ==
    IF sorted = <<>> THEN <<x>>
    ELSE IF x <= Head(sorted) THEN <<x>> \o sorted
    ELSE <<Head(sorted)>> \o Insert(x, Tail(sorted))

\* ids.sort()
RECURSIVE SortIds(_)
SortIds(ids) == IF ids = <<>> THEN <<>> ELSE Insert(Head(ids), SortIds(Tail(ids)))

\* IsGap with <= for <
IsGapOrEqual(first, idx, val) == U16Add(first, idx) <= val

\* the gap test of the find closure: (first + idx) < val
IsGap(first, idx, val) == U16Add(first, idx) < val

\* ids.iter().zip(0u16..).find(..): the offset of the first gap, -1 for None
RECURSIVE FindGap(_, _, _)
FindGap(ids, first, idx) ==
    IF idx >= Len(ids) THEN -1
    ELSE IF IsGap(first, idx, ids[idx + 1]) THEN idx
    ELSE FindGap(ids, first, idx + 1)

\* the octet chosen from the sorted, non-empty list of ids
ChooseOctet(ids) ==
    LET first == ids[1]
        idx == FindGap(ids, first, 0)
    IN IF idx # -1 THEN U16Add(first, idx) ELSE U16Add(first, Len(ids))

\* NetworkBaseOf starting from 172.16 when no id was read
NetworkBaseOrDefault(subnets) ==
    LET ids == SortIds(ParseIds(subnets))
        octet == IF ids = <<>> THEN 16 ELSE ChooseOctet(ids)
    IN [kind |-> "ok", octet |-> octet, base |-> FormatBase(octet)]

\* get_network_base on the subnets the engine lists: ids[0] panics on an empty list
NetworkBaseOf(subnets) ==
    LET ids == SortIds(ParseIds(subnets))
    IN IF ids = <<>> THEN [kind |-> "panic", octet |-> -1, base |-> <<>>]
       ELSE [kind |-> "ok", octet |-> ChooseOctet(ids), base |-> FormatBase(ChooseOctet(ids))]

-----------------------------------------------------------------------------
(* Port allocator: get_available_port *)

ScanLen == 99

\* base..end with end = base + 99 in u16: the ports the scan may probe
ScanRange(base) ==
    LET end == U16Add(base, ScanLen) IN {p \in base..(base + ScanLen) : p < end}

\* the ports the scan binds: every port of the range up to the first free one
ProbedPorts(base, occ) ==
    {p \in ScanRange(base) : \A q \in base..(p - 1) : q \in occ}

\* take_while(bind fails): the ports probed and found occupied before the first free one
FailedPorts(base, occ) ==
    {p \in ScanRange(base) : \A q \in base..p : q \in occ}

\* AvailablePortOf answering the base when no port was found occupied
AvailablePortOrBase(base, occ) ==
    LET failed == FailedPorts(base, occ)
    IN [kind |-> "ok",
        port |-> IF failed = {} THEN base
                 ELSE U16Add(CHOOSE p \in failed : \A q \in failed : q <= p, 1)]

\* failed_ports.pop().expect("some port") + 1; a base above 65436 panics in either
\* build: on base + 99 with overflow checks, on the empty range and expect without
AvailablePortOf(base, occ) ==
    LET failed == FailedPorts(base, occ)
    IN IF failed = {} THEN [kind |-> "panic", port |-> -1]
       ELSE [kind |-> "ok",
             port |-> U16Add(CHOOSE p \in failed : \A q \in failed : q <= p, 1)]

-----------------------------------------------------------------------------
(* Store errors: From<sqlx::Error> for ProvideError *)

\* the length of a Postgres SQLSTATE code
SqlStateLen == 5

UniqueCode == <<"2", "3", "5", "0", "5">>
ForeignKeyCode == <<"2", "3", "5", "0", "3">>
ConstraintClass == <<"2", "3">>

\* a sqlx::Error as the conversion reads it: its variant and, for a database error,
\* whether it downcasts to a PgError, its code and whether it carries a detail
SqlxError(variant, pg, code, details) ==
    [variant |-> variant, pg |-> pg, code |-> code, details |-> details]

NoError == SqlxError("none", FALSE, <<>>, FALSE)
RowNotFound == SqlxError("RowNotFound", FALSE, <<>>, FALSE)
IoError == SqlxError("Io", FALSE, <<>>, FALSE)
ForeignKeyError == SqlxError("Database", TRUE, ForeignKeyCode, TRUE)

\* ProvideErrorFromPg taking any code of the constraint class for a uniqueness violation
ProvideErrorFromPgByClass(pg_err) ==
    IF StartsWith(pg_err.code, ConstraintClass)
    THEN IF pg_err.details THEN "UniqueViolation" ELSE "panic"
    ELSE "Err"

\* TryFrom<&PgError> for ProvideError: "Err" is Err(()), "panic" is the unwrap of a
\* detail the error does not carry
ProvideErrorFromPg(pg_err) ==
    IF pg_err.code = UniqueCode
    THEN IF pg_err.details THEN "UniqueViolation" ELSE "panic"
    ELSE IF StartsWith(pg_err.code, ConstraintClass) THEN "ModelViolation"
    ELSE "Err"

\* From<sqlx::Error> for ProvideError
ProvideErrorOf(e) ==
    CASE e.variant = "RowNotFound" -> "NotFound"
      [] e.variant = "Database" ->
            IF e.pg
            THEN IF ProvideErrorFromPg(e) # "Err" THEN ProvideErrorFromPg(e)
                 ELSE "UnHandledError"
            ELSE "UnHandledError"
      [] OTHER -> "UnHandledError"

-----------------------------------------------------------------------------
(* The program's inputs *)

Runs == 1..MaxRuns

\* environment names a client may ask for
Names == {"dev1", "dev2"}

\* settings.twerg.base
PortBases == {9000}

\* docker::registry_http_addr() without REGISTRY_HTTP_ADDR set
Registry == "localhost:5000"

\* the reserved name of the ingress service
IngressService == "nginx"

\* one entry of the service configuration file; ports is the internal -> external
\* map, with -1 for an external port left null
ApiService ==
    [service |-> "api", image |-> "mimir", tag |-> "latest",
     addr_base |-> FormatBase(18), addr_suffix |-> 2, ports |-> {}]
NginxService ==
    [service |-> IngressService, image |-> "nginx", tag |-> "latest",
     addr_base |-> FormatBase(18), addr_suffix |-> 3, ports |-> {<<80, -1>>}]
ElasticService ==
    [service |-> "elasticsearch", image |-> "elasticsearch", tag |-> "7",
     addr_base |-> FormatBase(18), addr_suffix |-> 4, ports |-> {<<9200, 9200>>}]

\* the lists of services the configuration file may hold
Configs == {<<ApiService, NginxService>>, <<NginxService, ElasticService>>}

\* the subnet of a network the code cannot read an octet from
ForeignSubnet == <<"1", "9", "2", ".", "1", "6", "8", ".", "0", ".", "0", "/", "2", "4">>

\* the networks of the engine before the first request, by their subnets
InitialSubnets ==
    { <<>>,
      <<ForeignSubnet>>,
      <<FormatSubnet(FormatBase(17)), FormatSubnet(FormatBase(19))>>,
      <<FormatSubnet(FormatBase(171)), FormatSubnet(FormatBase(172))>> }

\* the host ports other processes hold before the first request
InitialOccupied == { {}, {9000, 9001} }

format_image(name, tag) == <<Registry, name, tag>>
format_container(name, env) == <<env, name>>
format_network(env) == <<env, "default">>

-----------------------------------------------------------------------------
(* State of one create_environment request *)

IdleRun ==
    [pc |-> "idle", name |-> "", port |-> 0, config |-> <<>>, k |-> 0,
     network_base |-> <<>>, twerg_port |-> -1, network_id |-> 0,
     tx |-> "none", error |-> "", response |-> "none",
     listed |-> {}, scan |-> {}, log |-> <<>>]

\* the step recorded with its outcome (a history of the calls the request made)
Logged(run, step, ok) ==
    [run EXCEPT !.log = Append(@, [step |-> step, svc |-> run.k, ok |-> ok])]

\* NextStep with the two allocator calls of create_twerg in the other order
NextStepPortFirst(step) ==
    CASE step = "get_config" -> "connect"
      [] step = "connect" -> "get_available_port"
      [] step = "get_available_port" -> "get_network_base"
      [] step = "get_network_base" -> "create_network"
      [] step = "create_image" -> "create_container"
      [] step = "create_container" -> "start_container"
      [] step = "begin" -> "store"
      [] step = "store" -> "commit"
      [] step = "commit" -> "done"

\* NextStep with launch_service starting the container right after the pull
NextStepStartAfterPull(step) ==
    CASE step = "get_config" -> "connect"
      [] step = "connect" -> "get_network_base"
      [] step = "get_network_base" -> "get_available_port"
      [] step = "get_available_port" -> "create_network"
      [] step = "create_image" -> "start_container"
      [] step = "create_container" -> "start_container"
      [] step = "begin" -> "store"
      [] step = "store" -> "commit"
      [] step = "commit" -> "done"

\* the statement that follows a step of create_environment / create_twerg /
\* launch_service when the step succeeds
NextStep(step) ==
    CASE step = "get_config" -> "connect"
      [] step = "connect" -> "get_network_base"
      [] step = "get_network_base" -> "get_available_port"
      [] step = "get_available_port" -> "create_network"
      [] step = "create_image" -> "create_container"
      [] step = "create_container" -> "start_container"
      [] step = "begin" -> "store"
      [] step = "store" -> "commit"
      [] step = "commit" -> "done"

\* a step that succeeded: on to the next statement
Proceed(run, step) == [Logged(run, step, TRUE) EXCEPT !.pc = NextStep(step)]

\* `?` on an Err: the request returns the error to its caller
Fail(run, step, kind) ==
    [Logged(run, step, FALSE) EXCEPT !.pc = "failed", !.error = kind,
                                      !.tx = "none", !.response = "error"]

\* a panic unwinds the request's task: no response is built
Panic(run, step) ==
    [Logged(run, step, FALSE) EXCEPT !.pc = "panicked", !.error = "panic", !.tx = "none"]

Terminal(run) == run.pc \in {"done", "failed", "panicked"}

Active(run) == run.pc # "idle" /\ ~Terminal(run)

Engine == <<networks, containers, images, occupied>>
Harness == <<arg, ret>>
IndexSide == <<indexes, reqs>>

-----------------------------------------------------------------------------
(* create_environment and create_twerg, one action per awaited call *)

\* the request arrives: db::InputEnvironmentEntity::from(request) sets port 0
Request(r) ==
    /\ runs[r].pc = "idle"
    /\ \A q \in Runs : q < r => runs[q].pc # "idle"
    /\ \E name \in Names :
         runs' = [runs EXCEPT ![r] = [@ EXCEPT !.pc = "get_config", !.name = name, !.port = 0]]
    /\ UNCHANGED <<Engine, store, Harness, IndexSide>>

\* get_config: read and deserialize the service configuration file
GetConfig(r) ==
    /\ runs[r].pc = "get_config"
    /\ \/ \E c \in Configs :
            runs' = [runs EXCEPT ![r] =
                        [Proceed(@, "get_config") EXCEPT !.config = c]]
       \/ \E kind \in {"TokioIOError", "JSONError"} :
            runs' = [runs EXCEPT ![r] = Fail(@, "get_config", kind)]
    /\ UNCHANGED <<Engine, store, Harness, IndexSide>>

\* Docker::connect_with_unix_defaults
Connect(r) ==
    /\ runs[r].pc = "connect"
    /\ \/ runs' = [runs EXCEPT ![r] = Proceed(@, "connect")]
       \/ runs' = [runs EXCEPT ![r] = Fail(@, "connect", "DockerError")]
    /\ UNCHANGED <<Engine, store, Harness, IndexSide>>

\* the subnets of the engine's networks, flattened in listing order
RECURSIVE ListedSubnets(_)
ListedSubnets(nets) ==
    IF nets = <<>> THEN <<>> ELSE Head(nets).subnets \o ListedSubnets(Tail(nets))

\* GetNetworkBase putting the chosen subnet aside in the engine at once
GetNetworkBaseReserving(r) ==
    /\ runs[r].pc = "get_network_base"
    /\ LET res == NetworkBaseOf(ListedSubnets(networks))
           seen == [runs[r] EXCEPT !.listed = {ListedSubnets(networks)}]
       IN IF res.kind = "panic"
          THEN /\ runs' = [runs EXCEPT ![r] = Panic(seen, "get_network_base")]
               /\ UNCHANGED networks
          ELSE /\ runs' = [runs EXCEPT ![r] =
                             [Proceed(seen, "get_network_base")
                                 EXCEPT !.network_base = res.base]]
               /\ networks' = Append(networks,
                                 [id |-> Len(networks) + 1, name |-> <<"", "reserved">>,
                                  subnets |-> <<FormatSubnet(res.base)>>,
                                  gateway |-> <<>>, env |-> "", run |-> r])
    /\ UNCHANGED <<containers, images, occupied, store, Harness, IndexSide>>

\* get_network_base: list the networks, then choose the base
GetNetworkBase(r) ==
    /\ runs[r].pc = "get_network_base"
    /\ \/ LET res == NetworkBaseOf(ListedSubnets(networks))
              seen == [runs[r] EXCEPT !.listed = {ListedSubnets(networks)}]
          IN runs' = [runs EXCEPT ![r] =
                        IF res.kind = "panic" THEN Panic(seen, "get_network_base")
                        ELSE [Proceed(seen, "get_network_base")
                                 EXCEPT !.network_base = res.base]]
       \/ runs' = [runs EXCEPT ![r] = Fail(@, "get_network_base", "DockerError")]
    /\ UNCHANGED <<Engine, store, Harness, IndexSide>>

\* GetAvailablePort keeping the listener of the port on which the scan ended
GetAvailablePortListening(r) ==
    /\ runs[r].pc = "get_available_port"
    /\ \E base \in PortBases :
         LET res == AvailablePortOf(base, occupied)
             seen == [runs[r] EXCEPT !.scan = {<<base, occupied>>}]
         IN /\ runs' = [runs EXCEPT ![r] =
                           IF res.kind = "panic" THEN Panic(seen, "get_available_port")
                           ELSE [Proceed(seen, "get_available_port")
                                    EXCEPT !.twerg_port = res.port]]
            /\ occupied' = occupied \cup {IF res.kind = "panic" THEN base ELSE res.port}
    /\ UNCHANGED <<networks, containers, images, store, Harness, IndexSide>>

\* get_available_port(settings.twerg.base): the whole scan runs without yielding
GetAvailablePort(r) ==
    /\ runs[r].pc = "get_available_port"
    /\ \E base \in PortBases :
         LET res == AvailablePortOf(base, occupied)
             seen == [runs[r] EXCEPT !.scan = {<<base, occupied>>}]
         IN runs' = [runs EXCEPT ![r] =
                        IF res.kind = "panic" THEN Panic(seen, "get_available_port")
                        ELSE [Proceed(seen, "get_available_port")
                                 EXCEPT !.twerg_port = res.port]]
    /\ UNCHANGED <<Engine, store, Harness, IndexSide>>

\* the network create_network asks the engine for
NewNetwork(run, r) ==
    [id |-> Len(networks) + 1,
     name |-> format_network(run.name),
     subnets |-> <<FormatSubnet(run.network_base)>>,
     gateway |-> FormatGateway(run.network_base),
     env |-> run.name,
     run |-> r]

\* try_for_each over the configured services: the first service, or, with none
\* configured, Ok(port) and input.port = port as i32
AfterNetwork(run) ==
    IF Len(run.config) = 0
    THEN [run EXCEPT !.pc = "begin", !.port = run.twerg_port]
    ELSE [run EXCEPT !.pc = "create_image", !.k = 1]

\* CreateNetwork going on to the services when the engine's answer has no id
CreateNetworkWithoutId(r) ==
    /\ runs[r].pc = "create_network"
    /\ \/ /\ runs' = [runs EXCEPT ![r] = Fail(@, "create_network", "DockerError")]
          /\ UNCHANGED networks
       \/ /\ networks' = Append(networks, NewNetwork(runs[r], r))
          /\ runs' = [runs EXCEPT ![r] =
                        [AfterNetwork(Logged(@, "create_network", TRUE))
                            EXCEPT !.network_id = Len(networks) + 1]]
       \/ /\ networks' = Append(networks, NewNetwork(runs[r], r))
          /\ runs' = [runs EXCEPT ![r] = AfterNetwork(Logged(@, "create_network", TRUE))]
    /\ UNCHANGED <<containers, images, occupied, store, Harness, IndexSide>>

\* create_network: the engine refuses, or creates the network and answers with or
\* without its id
CreateNetwork(r) ==
    /\ runs[r].pc = "create_network"
    /\ \/ /\ runs' = [runs EXCEPT ![r] = Fail(@, "create_network", "DockerError")]
          /\ UNCHANGED networks
       \/ /\ networks' = Append(networks, NewNetwork(runs[r], r))
          /\ runs' = [runs EXCEPT ![r] =
                        [AfterNetwork(Logged(@, "create_network", TRUE))
                            EXCEPT !.network_id = Len(networks) + 1]]
       \/ /\ networks' = Append(networks, NewNetwork(runs[r], r))
          /\ runs' = [runs EXCEPT ![r] = Fail(@, "create_network", "MiscError")]
    /\ UNCHANGED <<containers, images, occupied, store, Harness, IndexSide>>

\* ServiceOf leaving the port map as the configuration file has it
ServiceOfConfiguredPorts(run) == run.config[run.k]

\* the ServiceConfig handed to launch_service for the k-th service: the network id
\* is filled in, and the ingress service gets the "80" -> twerg port map
ServiceOf(run) ==
    LET c == run.config[run.k]
    IN [c EXCEPT !.ports = IF c.service = IngressService
                           THEN {<<80, run.twerg_port>>} ELSE @]

\* CreateImage going on to create_container when the pull failed
CreateImageIgnoringError(r) ==
    /\ runs[r].pc = "create_image"
    /\ LET c == ServiceOf(runs[r])
       IN \/ /\ images' = images \cup {format_image(c.image, c.tag)}
             /\ runs' = [runs EXCEPT ![r] = Proceed(@, "create_image")]
          \/ /\ runs' = [runs EXCEPT ![r] =
                            [Logged(@, "create_image", FALSE) EXCEPT !.pc = "create_container"]]
             /\ UNCHANGED images
    /\ UNCHANGED <<networks, containers, occupied, store, Harness, IndexSide>>

\* create_image: pull the image of the current service
CreateImage(r) ==
    /\ runs[r].pc = "create_image"
    /\ LET c == ServiceOf(runs[r])
       IN \/ /\ images' = images \cup {format_image(c.image, c.tag)}
             /\ runs' = [runs EXCEPT ![r] = Proceed(@, "create_image")]
          \/ /\ runs' = [runs EXCEPT ![r] = Fail(@, "create_image", "DockerError")]
             /\ UNCHANGED images
    /\ UNCHANGED <<networks, containers, occupied, store, Harness, IndexSide>>

\* port_bindings: one binding per entry of the port map that has an external port
PortBindings(ports) == {b \in ports : b[2] # -1}

\* the container create_container asks the engine for
NewContainer(run, r) ==
    LET c == ServiceOf(run)
    IN [name |-> format_container(c.service, run.name),
        service |-> c.service,
        image |-> format_image(c.image, c.tag),
        network |-> format_network(run.name),
        network_id |-> run.network_id,
        gateway |-> FormatGateway(c.addr_base),
        ip_address |-> c.addr_base \o <<".", "0", ".">> \o FormatNat(c.addr_suffix),
        bindings |-> PortBindings(c.ports),
        running |-> FALSE,
        run |-> r]

\* CreateContainer removing the run's containers and network when the engine refuses
CreateContainerRollingBack(r) ==
    /\ runs[r].pc = "create_container"
    /\ \/ /\ \A c \in containers : c.name # NewContainer(runs[r], r).name
          /\ containers' = containers \cup {NewContainer(runs[r], r)}
          /\ runs' = [runs EXCEPT ![r] = Proceed(@, "create_container")]
          /\ UNCHANGED networks
       \/ /\ runs' = [runs EXCEPT ![r] = Fail(@, "create_container", "DockerError")]
          /\ containers' = {c \in containers : c.run # r}
          /\ networks' = SelectSeq(networks, LAMBDA n : n.run # r)
    /\ UNCHANGED <<images, occupied, store, Harness, IndexSide>>

\* create_container: the engine refuses (always, when the name is taken), or creates it
\* (the engine answers a created container with its id, which is never empty, so the
\* assert_ne! on the id does not fire)
CreateContainer(r) ==
    /\ runs[r].pc = "create_container"
    /\ \/ /\ \A c \in containers : c.name # NewContainer(runs[r], r).name
          /\ containers' = containers \cup {NewContainer(runs[r], r)}
          /\ runs' = [runs EXCEPT ![r] = Proceed(@, "create_container")]
       \/ /\ runs' = [runs EXCEPT ![r] = Fail(@, "create_container", "DockerError")]
          /\ UNCHANGED containers
    /\ UNCHANGED <<networks, images, occupied, store, Harness, IndexSide>>

\* AfterStart leaving the loop after the first service
AfterStartFirstOnly(run) == [run EXCEPT !.pc = "begin", !.port = run.twerg_port]

\* try_for_each: the next service, or Ok(port) and input.port = port as i32
AfterStart(run) ==
    IF run.k < Len(run.config)
    THEN [run EXCEPT !.pc = "create_image", !.k = @ + 1]
    ELSE [run EXCEPT !.pc = "begin", !.port = run.twerg_port]

HostPorts(c) == {b[2] : b \in c.bindings}

\* StartContainer with a container that does not take its host ports
StartContainerNotBinding(r) ==
    /\ runs[r].pc = "start_container"
    /\ LET name == format_container(ServiceOf(runs[r]).service, runs[r].name)
       IN \/ \E c \in containers :
               /\ c.name = name
               /\ containers' = (containers \ {c}) \cup {[c EXCEPT !.running = TRUE]}
               /\ runs' = [runs EXCEPT ![r] = AfterStart(Logged(@, "start_container", TRUE))]
          \/ /\ runs' = [runs EXCEPT ![r] = Fail(@, "start_container", "DockerError")]
             /\ UNCHANGED containers
    /\ UNCHANGED <<networks, images, occupied, store, Harness, IndexSide>>

\* start_container: the engine refuses (always, when a bound host port is taken), or
\* starts the container, which then holds its host ports
StartContainer(r) ==
    /\ runs[r].pc = "start_container"
    /\ LET name == format_container(ServiceOf(runs[r]).service, runs[r].name)
       IN \/ \E c \in containers :
               /\ c.name = name
               /\ HostPorts(c) \cap occupied = {}
               /\ containers' = (containers \ {c}) \cup {[c EXCEPT !.running = TRUE]}
               /\ occupied' = occupied \cup HostPorts(c)
               /\ runs' = [runs EXCEPT ![r] = AfterStart(Logged(@, "start_container", TRUE))]
          \/ /\ runs' = [runs EXCEPT ![r] = Fail(@, "start_container", "DockerError")]
             /\ UNCHANGED <<containers, occupied>>
    /\ UNCHANGED <<networks, images, store, Harness, IndexSide>>

\* PgPool::builder().max_size(5)
PoolSize == 5

\* the clients whose listEnvironments / createIndex requests are followed: as many
\* as the pool has connections
Clients == 1..PoolSize

\* the body of a response that has not been built
NoResponse ==
    [kind |-> "none", envs |-> <<>>, envs_count |-> 0, index |-> 0, status |-> "",
     environment |-> 0]

\* a listEnvironments / createIndex request that has not arrived; conns counts the
\* pool connections its transactions hold
IdleReq ==
    [pc |-> "idle", op |-> "none", environment |-> 0, entities |-> <<>>, k |-> 0,
     fetched |-> <<>>, conns |-> 0, error |-> "", cause |-> "none", found |-> FALSE,
     response |-> NoResponse, log |-> <<>>]

\* connections checked out of the pool: one per transaction that is open
InUse ==
    Cardinality({r \in Runs : runs[r].tx # "none"})
        + Cardinality({c \in Clients : reqs[c].conns >= 1})
        + Cardinality({c \in Clients : reqs[c].conns >= 2})

\* pool.conn() hands out a connection: one is left in the pool
ConnectionFree == InUse < PoolSize

\* pool.conn().and_then(Connection::begin): the checkout waits for a free connection
\* and gives up with an error when the pool's timeout passes
Begin(r) ==
    /\ runs[r].pc = "begin"
    /\ \/ /\ ConnectionFree
          /\ runs' = [runs EXCEPT ![r] = [Proceed(@, "begin") EXCEPT !.tx = "open"]]
       \/ runs' = [runs EXCEPT ![r] = Fail(@, "begin", "DBError")]
    /\ UNCHANGED <<Engine, store, Harness, IndexSide>>

\* the store's create_environment procedure refuses a name that is already stored
NameTaken(name) == \E i \in DOMAIN store : store[i].name = name

\* another open transaction has written a row of that name: the insert waits for it
NameLocked(r) ==
    \E q \in Runs : q # r /\ runs[q].tx = "written" /\ runs[q].name = runs[r].name

\* ProvideData::create_environment inside the transaction
StoreEnvironment(r) ==
    /\ runs[r].pc = "store"
    /\ ~NameLocked(r)
    /\ \/ /\ ~NameTaken(runs[r].name)
          /\ runs' = [runs EXCEPT ![r] = [Proceed(@, "store") EXCEPT !.tx = "written"]]
       \/ /\ NameTaken(runs[r].name)
          /\ runs' = [runs EXCEPT ![r] = Fail(@, "store", "UniqueViolation")]
       \/ runs' = [runs EXCEPT ![r] = Fail(@, "store", "UnHandledError")]
    /\ UNCHANGED <<Engine, store, Harness, IndexSide>>

\* RowOf with the port of the request as it arrived
RowOfRequestPort(run, r) == [id |-> r, name |-> run.name, port |-> 0, run |-> r]

\* the row the transaction wrote
RowOf(run, r) == [id |-> r, name |-> run.name, port |-> run.port, run |-> r]

\* Commit deleting the run's containers and network when the commit fails
CommitRemovingOnError(r) ==
    /\ runs[r].pc = "commit"
    /\ \/ /\ store' = Append(store, RowOf(runs[r], r))
          /\ runs' = [runs EXCEPT ![r] =
                        [Proceed(@, "commit") EXCEPT !.tx = "none", !.response = "ok"]]
          /\ UNCHANGED Engine
       \/ /\ runs' = [runs EXCEPT ![r] = Fail(@, "commit", "DBError")]
          /\ containers' = {c \in containers : c.run # r}
          /\ networks' = SelectSeq(networks, LAMBDA n : n.run # r)
          /\ UNCHANGED <<store, images, occupied>>
    /\ UNCHANGED <<Harness, IndexSide>>

\* tx.commit(), then the response is built from the returned row
Commit(r) ==
    /\ runs[r].pc = "commit"
    /\ \/ /\ store' = Append(store, RowOf(runs[r], r))
          /\ runs' = [runs EXCEPT ![r] =
                        [Proceed(@, "commit") EXCEPT !.tx = "none", !.response = "ok"]]
       \/ /\ runs' = [runs EXCEPT ![r] = Fail(@, "commit", "DBError")]
          /\ UNCHANGED store
    /\ UNCHANGED <<Engine, Harness, IndexSide>>

-----------------------------------------------------------------------------
(* list_environments and create_index, one action per awaited call *)

\* the call the request stood at, recorded with its outcome and, in the stream of
\* list_environments, the position of the environment (a history of the calls)
Did(req, ok) == [req EXCEPT !.log = Append(@, [step |-> req.pc, k |-> req.k, ok |-> ok])]

\* ReqFail answering with the environments collected so far
ReqFailWithCollected(req, kind, cause) ==
    [Did(req, FALSE) EXCEPT !.pc = "failed", !.error = kind, !.cause = cause, !.conns = 0,
                            !.response = [NoResponse EXCEPT !.kind = "error",
                                                            !.envs = req.entities]]

\* `?` on an Err: the transactions of the request are dropped, their connections go
\* back to the pool, and the error is returned
ReqFail(req, kind, cause) ==
    [Did(req, FALSE) EXCEPT !.pc = "failed", !.error = kind, !.cause = cause, !.conns = 0,
                !.response = [NoResponse EXCEPT !.kind = "error"]]

\* FromRow for EnvironmentEntity: the row's columns, and no index yet
EntityOf(row) == [id |-> row.id, name |-> row.name, port |-> row.port, indexes |-> <<>>]

\* list_environments(): the committed environments
ListedEnvironments == [i \in DOMAIN store |-> EntityOf(store[i])]

\* the committed Index rows of one environment, in the store's order
RowsOfEnvironment(id) == SelectSeq(indexes, LAMBDA x : x.environment = id)

\* list_environment_indexes(id) through FromRow for IndexEntity: the environment
\* column is not among the columns read
ListedIndexes(id) ==
    [i \in DOMAIN RowsOfEnvironment(id) |-> RowsOfEnvironment(id)[i].id]

\* the query arrives at the `environments` field
ListRequest(c) ==
    /\ reqs[c].pc = "idle"
    /\ \A d \in Clients : d < c => reqs[d].pc # "idle"
    /\ reqs' = [reqs EXCEPT ![c] = [@ EXCEPT !.pc = "begin", !.op = "list"]]
    /\ UNCHANGED <<runs, Engine, store, indexes, Harness>>

\* list_environments: the transaction that stays open until the response is built
ListBegin(c) ==
    /\ reqs[c].pc = "begin"
    /\ reqs[c].op = "list"
    /\ \/ /\ ConnectionFree
          /\ reqs' = [reqs EXCEPT ![c] =
                        [Did(@, TRUE) EXCEPT !.pc = "get_all_environments", !.conns = 1]]
       \/ reqs' = [reqs EXCEPT ![c] = ReqFail(@, "DBError", "pool")]
    /\ UNCHANGED <<runs, Engine, store, indexes, Harness>>

\* AfterEntity querying the indexes of the next entity in the outer transaction
AfterEntityInOuter(req) ==
    IF req.k < Len(req.entities)
    THEN [req EXCEPT !.pc = "get_environment_indexes", !.k = @ + 1]
    ELSE [req EXCEPT !.pc = "commit"]

\* the stream over the entities: the next one, or, after the last, the commit of the
\* outer transaction
AfterEntity(req) ==
    IF req.k < Len(req.entities)
    THEN [req EXCEPT !.pc = "inner_begin", !.k = @ + 1]
    ELSE [req EXCEPT !.pc = "commit"]

\* tx.get_all_environments()
GetAllEnvironments(c) ==
    /\ reqs[c].pc = "get_all_environments"
    /\ \/ reqs' = [reqs EXCEPT ![c] =
                     AfterEntity([Did(@, TRUE) EXCEPT !.entities = ListedEnvironments, !.k = 0])]
       \/ reqs' = [reqs EXCEPT ![c] = ReqFail(@, ProvideErrorOf(IoError), "Io")]
    /\ UNCHANGED <<runs, Engine, store, indexes, Harness>>

\* the transaction opened for one environment while the outer one is still open
InnerBegin(c) ==
    /\ reqs[c].pc = "inner_begin"
    /\ \/ /\ ConnectionFree
          /\ reqs' = [reqs EXCEPT ![c] =
                        [Did(@, TRUE) EXCEPT !.pc = "get_environment_indexes", !.conns = 2]]
       \/ reqs' = [reqs EXCEPT ![c] = ReqFail(@, "DBError", "pool")]
    /\ UNCHANGED <<runs, Engine, store, indexes, Harness>>

\* tx.get_environment_indexes(&env.id)
GetEnvironmentIndexes(c) ==
    /\ reqs[c].pc = "get_environment_indexes"
    /\ \/ reqs' = [reqs EXCEPT ![c] =
                     [Did(@, TRUE) EXCEPT !.pc = "inner_commit",
                               !.fetched = ListedIndexes(reqs[c].entities[reqs[c].k].id)]]
       \/ reqs' = [reqs EXCEPT ![c] = ReqFail(@, ProvideErrorOf(IoError), "Io")]
    /\ UNCHANGED <<runs, Engine, store, indexes, Harness>>

\* InnerCommit attaching the indexes to the first entity
InnerCommitOnFirst(c) ==
    /\ reqs[c].pc = "inner_commit"
    /\ \/ reqs' = [reqs EXCEPT ![c] =
                     AfterEntity([Did(@, TRUE) EXCEPT !.conns = 1, !.fetched = <<>>,
                                           !.entities[1].indexes = reqs[c].fetched])]
       \/ reqs' = [reqs EXCEPT ![c] = ReqFail(@, "DBError", "commit")]
    /\ UNCHANGED <<runs, Engine, store, indexes, Harness>>

\* the inner tx.commit(), then env.indexes = indexes
InnerCommit(c) ==
    /\ reqs[c].pc = "inner_commit"
    /\ \/ reqs' = [reqs EXCEPT ![c] =
                     AfterEntity([Did(@, TRUE) EXCEPT !.conns = 1, !.fetched = <<>>,
                                           !.entities[reqs[c].k].indexes = reqs[c].fetched])]
       \/ reqs' = [reqs EXCEPT ![c] = ReqFail(@, "DBError", "commit")]
    /\ UNCHANGED <<runs, Engine, store, indexes, Harness>>

\* MultiEnvironmentsResponseBody::from(environments)
MultiEnvironmentsResponseBody(envs) ==
    [NoResponse EXCEPT !.kind = "ok", !.envs = envs, !.envs_count = Len(envs)]

\* the outer tx.commit(), then the response
ListCommit(c) ==
    /\ reqs[c].pc = "commit"
    /\ reqs[c].op = "list"
    /\ \/ reqs' = [reqs EXCEPT ![c] =
                     [Did(@, TRUE) EXCEPT !.pc = "done", !.conns = 0,
                               !.response = MultiEnvironmentsResponseBody(reqs[c].entities)]]
       \/ reqs' = [reqs EXCEPT ![c] = ReqFail(@, "DBError", "commit")]
    /\ UNCHANGED <<runs, Engine, store, indexes, Harness>>

\* environment ids a createIndex request may name: the first environment of an
\* earlier lifetime of the server, and the one the first createEnvironment stores
IndexTargets == {101, 1}

\* the mutation arrives at the `create_index` field
IndexRequest(c) ==
    /\ reqs[c].pc = "idle"
    /\ \A d \in Clients : d < c => reqs[d].pc # "idle"
    /\ \E e \in IndexTargets :
         reqs' = [reqs EXCEPT ![c] =
                    [@ EXCEPT !.pc = "begin", !.op = "index", !.environment = e]]
    /\ UNCHANGED <<runs, Engine, store, indexes, Harness>>

\* create_index: pool.conn().and_then(Connection::begin)
IndexBegin(c) ==
    /\ reqs[c].pc = "begin"
    /\ reqs[c].op = "index"
    /\ \/ /\ ConnectionFree
          /\ reqs' = [reqs EXCEPT ![c] = [Did(@, TRUE) EXCEPT !.pc = "create_index", !.conns = 1]]
       \/ reqs' = [reqs EXCEPT ![c] = ReqFail(@, "DBError", "pool")]
    /\ UNCHANGED <<runs, Engine, store, indexes, Harness>>

\* a committed Environment row has this id
EnvironmentExists(id) == \E i \in DOMAIN store : store[i].id = id

\* what the store answers to an insert that references no environment: the
\* foreign-key violation, or no row
MissingEnvironmentErrors == {ForeignKeyError, RowNotFound}

\* another open transaction has deleted the Environment row: a statement that
\* references the row waits for that transaction
EnvironmentDeleted(c) ==
    \E d \in Clients :
        /\ d # c
        /\ reqs[d].op = "delete"
        /\ reqs[d].pc = "commit"
        /\ reqs[d].environment = reqs[c].environment

\* another open transaction has inserted an Index that references the Environment
\* row: a delete of the row waits for that transaction
EnvironmentReferenced(c) ==
    \E d \in Clients :
        /\ d # c
        /\ reqs[d].op = "index"
        /\ reqs[d].pc = "commit"
        /\ reqs[d].environment = reqs[c].environment

\* ProvideData::create_index inside the transaction
StoreIndex(c) ==
    /\ reqs[c].pc = "create_index"
    /\ ~EnvironmentDeleted(c)
    /\ \/ /\ EnvironmentExists(reqs[c].environment)
          /\ reqs' = [reqs EXCEPT ![c] = [Did(@, TRUE) EXCEPT !.pc = "commit", !.found = TRUE]]
       \/ /\ ~EnvironmentExists(reqs[c].environment)
          /\ \E e \in MissingEnvironmentErrors :
               reqs' = [reqs EXCEPT ![c] = ReqFail(@, ProvideErrorOf(e), e.variant)]
       \/ reqs' = [reqs EXCEPT ![c] =
                     ReqFail([@ EXCEPT !.found = EnvironmentExists(reqs[c].environment)],
                             ProvideErrorOf(IoError), "Io")]
    /\ UNCHANGED <<runs, Engine, store, indexes, Harness>>

\* the values of the store's index_status type: db::IndexStatus under
\* rename_all = "snake_case"
DbIndexStatus ==
    <<"not_available", "downloading_in_progress", "downloading_error", "downloaded",
      "processing_in_progress", "processing_error", "processed",
      "indexing_in_progress", "indexing_error", "indexed",
      "validation_in_progress", "validation_error", "available">>

\* the API's IndexStatus
IndexStatus ==
    <<"NotAvailable", "DownloadingInProgress", "DownloadingError", "Downloaded",
      "ProcessingInProgress", "ProcessingError", "Processed",
      "IndexingInProgress", "IndexingError", "Indexed",
      "ValidationInProgress", "ValidationError", "Available">>

\* IndexStatusFrom reading every status one step further along the progression
IndexStatusFromNext(status) ==
    IndexStatus[((CHOOSE j \in DOMAIN DbIndexStatus : DbIndexStatus[j] = status)
                    % Len(IndexStatus)) + 1]

\* impl From<db::IndexStatus> for IndexStatus
IndexStatusFrom(status) ==
    CASE status = "not_available" -> "NotAvailable"
      [] status = "downloading_in_progress" -> "DownloadingInProgress"
      [] status = "downloading_error" -> "DownloadingError"
      [] status = "downloaded" -> "Downloaded"
      [] status = "processing_in_progress" -> "ProcessingInProgress"
      [] status = "processing_error" -> "ProcessingError"
      [] status = "processed" -> "Processed"
      [] status = "indexing_in_progress" -> "IndexingInProgress"
      [] status = "indexing_error" -> "IndexingError"
      [] status = "indexed" -> "Indexed"
      [] status = "validation_in_progress" -> "ValidationInProgress"
      [] status = "validation_error" -> "ValidationError"
      [] status = "available" -> "Available"

\* DbIndexStatusFrom writing every status one step further along the progression
DbIndexStatusFromNext(status) ==
    DbIndexStatus[((CHOOSE j \in DOMAIN IndexStatus : IndexStatus[j] = status)
                      % Len(DbIndexStatus)) + 1]

\* impl From<IndexStatus> for db::IndexStatus
DbIndexStatusFrom(status) ==
    CASE status = "NotAvailable" -> "not_available"
      [] status = "DownloadingInProgress" -> "downloading_in_progress"
      [] status = "DownloadingError" -> "downloading_error"
      [] status = "Downloaded" -> "downloaded"
      [] status = "ProcessingInProgress" -> "processing_in_progress"
      [] status = "ProcessingError" -> "processing_error"
      [] status = "Processed" -> "processed"
      [] status = "IndexingInProgress" -> "indexing_in_progress"
      [] status = "IndexingError" -> "indexing_error"
      [] status = "Indexed" -> "indexed"
      [] status = "ValidationInProgress" -> "validation_in_progress"
      [] status = "ValidationError" -> "validation_error"
      [] status = "Available" -> "available"

\* the status the store's create_index procedure gives a new row: the request
\* carries none (InputIndexEntity has no status field)
InitialStatus == DbIndexStatus[1]

\* the id the store generates for a new Index: one that no row and no response has
NewIndexId ==
    LET used == {indexes[i].id : i \in DOMAIN indexes}
                    \cup {reqs[c].response.index : c \in Clients} \cup {0}
    IN 1 + (CHOOSE m \in used : \A u \in used : u <= m)

\* the Index row the transaction wrote
IndexRowOf(req, c) ==
    [id |-> NewIndexId, environment |-> req.environment, req |-> c,
     status |-> InitialStatus]

\* tx.commit(), then the response is built from the returned row
IndexCommit(c) ==
    /\ reqs[c].pc = "commit"
    /\ reqs[c].op = "index"
    /\ \/ /\ indexes' = Append(indexes, IndexRowOf(reqs[c], c))
          /\ reqs' = [reqs EXCEPT ![c] =
                        [Did(@, TRUE) EXCEPT !.pc = "done", !.conns = 0,
                                  !.response =
                                      [NoResponse EXCEPT
                                          !.kind = "ok",
                                          !.index = NewIndexId,
                                          !.status = IndexStatusFrom(
                                              IndexRowOf(reqs[c], c).status)]]]
       \/ /\ reqs' = [reqs EXCEPT ![c] = ReqFail(@, "DBError", "commit")]
          /\ UNCHANGED indexes
    /\ UNCHANGED <<runs, Engine, store, Harness>>

\* delete_environment is called by a collaborator of the core: no field of the
\* request layer reaches it
DeleteRequest(c) ==
    /\ reqs[c].pc = "idle"
    /\ \A d \in Clients : d < c => reqs[d].pc # "idle"
    /\ \E e \in IndexTargets :
         reqs' = [reqs EXCEPT ![c] =
                    [@ EXCEPT !.pc = "begin", !.op = "delete", !.environment = e]]
    /\ UNCHANGED <<runs, Engine, store, indexes, Harness>>

\* delete_environment: pool.conn().and_then(Connection::begin)
DeleteBegin(c) ==
    /\ reqs[c].pc = "begin"
    /\ reqs[c].op = "delete"
    /\ \/ /\ ConnectionFree
          /\ reqs' = [reqs EXCEPT ![c] =
                        [Did(@, TRUE) EXCEPT !.pc = "delete_environment", !.conns = 1]]
       \/ reqs' = [reqs EXCEPT ![c] = ReqFail(@, "DBError", "pool")]
    /\ UNCHANGED <<runs, Engine, store, indexes, Harness>>

\* what the store answers to the delete of an environment that has indexes: it
\* removes them with the environment, or it refuses with the foreign-key violation
IndexedEnvironmentAnswers == {"cascade", "restrict"}

\* DeleteStore removing the row as soon as the statement has run
DeleteStoreAtOnce(c) ==
    /\ reqs[c].pc = "delete_environment"
    /\ EnvironmentExists(reqs[c].environment)
    /\ reqs' = [reqs EXCEPT ![c] = [Did(@, TRUE) EXCEPT !.pc = "commit", !.found = TRUE]]
    /\ store' = SelectSeq(store, LAMBDA x : x.id # reqs[c].environment)
    /\ indexes' = SelectSeq(indexes, LAMBDA x : x.environment # reqs[c].environment)
    /\ UNCHANGED <<runs, Engine, Harness>>

\* ProvideData::delete_environment inside the transaction: fetch_one wants the
\* deleted row back
DeleteStore(c) ==
    /\ reqs[c].pc = "delete_environment"
    /\ ~EnvironmentDeleted(c)
    /\ ~EnvironmentReferenced(c)
    /\ \/ /\ EnvironmentExists(reqs[c].environment)
          /\ \E answer \in IndexedEnvironmentAnswers :
               IF answer = "cascade" \/ RowsOfEnvironment(reqs[c].environment) = <<>>
               THEN reqs' = [reqs EXCEPT ![c] = [Did(@, TRUE) EXCEPT !.pc = "commit", !.found = TRUE]]
               ELSE reqs' = [reqs EXCEPT ![c] =
                               ReqFail([@ EXCEPT !.found = TRUE],
                                       ProvideErrorOf(ForeignKeyError), "Database")]
       \/ /\ ~EnvironmentExists(reqs[c].environment)
          /\ reqs' = [reqs EXCEPT ![c] =
                        ReqFail(@, ProvideErrorOf(RowNotFound), "RowNotFound")]
       \/ reqs' = [reqs EXCEPT ![c] =
                     ReqFail([@ EXCEPT !.found = EnvironmentExists(reqs[c].environment)],
                             ProvideErrorOf(IoError), "Io")]
    /\ UNCHANGED <<runs, Engine, store, indexes, Harness>>

\* DeleteCommit removing the containers and the network of the environment from the
\* engine with the row
DeleteCommitRemovingResources(c) ==
    /\ reqs[c].pc = "commit"
    /\ reqs[c].op = "delete"
    /\ \/ /\ store' = SelectSeq(store, LAMBDA x : x.id # reqs[c].environment)
          /\ indexes' = SelectSeq(indexes, LAMBDA x : x.environment # reqs[c].environment)
          /\ containers' = {x \in containers : x.run # reqs[c].environment}
          /\ networks' = SelectSeq(networks, LAMBDA n : n.run # reqs[c].environment)
          /\ reqs' = [reqs EXCEPT ![c] =
                        [Did(@, TRUE) EXCEPT !.pc = "done", !.conns = 0,
                                  !.response = [NoResponse EXCEPT
                                                   !.kind = "ok",
                                                   !.environment = reqs[c].environment]]]
       \/ /\ reqs' = [reqs EXCEPT ![c] = ReqFail(@, "DBError", "commit")]
          /\ UNCHANGED <<store, indexes, containers, networks>>
    /\ UNCHANGED <<runs, images, occupied, Harness>>

\* tx.commit(), then the response is built from the deleted row
DeleteCommit(c) ==
    /\ reqs[c].pc = "commit"
    /\ reqs[c].op = "delete"
    /\ \/ /\ store' = SelectSeq(store, LAMBDA x : x.id # reqs[c].environment)
          /\ indexes' = SelectSeq(indexes, LAMBDA x : x.environment # reqs[c].environment)
          /\ reqs' = [reqs EXCEPT ![c] =
                        [Did(@, TRUE) EXCEPT !.pc = "done", !.conns = 0,
                                  !.response = [NoResponse EXCEPT
                                                   !.kind = "ok",
                                                   !.environment = reqs[c].environment]]]
       \/ /\ reqs' = [reqs EXCEPT ![c] = ReqFail(@, "DBError", "commit")]
          /\ UNCHANGED <<store, indexes>>
    /\ UNCHANGED <<runs, Engine, Harness>>

\* no function under test: the input and the result at rest
NoArg ==
    [fn |-> "none", base |-> 0, occ |-> {}, subnets |-> <<>>, err |-> NoError,
     to |-> "", statuses |-> <<>>]
NoRet ==
    [kind |-> "none", value |-> -1, base |-> <<>>, error |-> "", converted |-> <<>>,
     back |-> <<>>]

\* a network that exists before the first request
InitialNetwork(i, s) ==
    [id |-> i, name |-> <<"", "bridge">>, subnets |-> <<s>>, gateway |-> <<>>,
     env |-> "", run |-> 0]

Init ==
    /\ runs = [r \in Runs |-> IdleRun]
    /\ \E ss \in InitialSubnets :
         networks = [i \in 1..Len(ss) |-> InitialNetwork(i, ss[i])]
    /\ containers = {}
    /\ images = {}
    /\ occupied \in InitialOccupied
    /\ store = <<>>
    /\ indexes = <<>>
    /\ reqs = [c \in Clients |-> IdleReq]
    /\ arg = NoArg
    /\ ret = NoRet

\* requests are served one at a time
OneAtATime == \A q \in Runs : ~Active(runs[q])

Next ==
    \E r \in Runs :
        \/ OneAtATime /\ Request(r)
        \/ GetConfig(r)
        \/ Connect(r)
        \/ GetNetworkBase(r)
        \/ GetAvailablePort(r)
        \/ CreateNetwork(r)
        \/ CreateImage(r)
        \/ CreateContainer(r)
        \/ StartContainer(r)
        \/ Begin(r)
        \/ StoreEnvironment(r)
        \/ Commit(r)

Spec == Init /\ [][Next]_vars

\* two requests in flight at once: each awaited call of one may fall between any two
\* awaited calls of the other
Overlapping == {r \in Runs : r <= 2}

NextOverlap ==
    \E r \in Overlapping :
        \/ Request(r)
        \/ GetConfig(r)
        \/ Connect(r)
        \/ GetNetworkBase(r)
        \/ GetAvailablePort(r)
        \/ CreateNetwork(r)
        \/ CreateImage(r)
        \/ CreateContainer(r)
        \/ StartContainer(r)
        \/ Begin(r)
        \/ StoreEnvironment(r)
        \/ Commit(r)

SpecOverlap == Init /\ [][NextOverlap]_vars

-----------------------------------------------------------------------------
(* The allocators on their own: the input is drawn, then the function is applied *)

EngineIdle ==
    /\ runs = [r \in Runs |-> IdleRun]
    /\ networks = <<>>
    /\ containers = {}
    /\ images = {}
    /\ occupied = {}
    /\ store = <<>>
    /\ indexes = <<>>
    /\ reqs = [c \in Clients |-> IdleReq]

\* base ports the port allocator is tried on: the usual one and one near the top of u16
TestBases == {9000, 65500}

\* occupied sets: the first k ports from the base, and any of a few ports further on
ExtraPorts(base) == {base + 2 * i : i \in 1..MaxExtra}
OccupiedSets(base) ==
    {{p \in (base..(base + k - 1)) \cup x : p <= U16Max} :
        k \in 0..(ScanLen + 1), x \in SUBSET ExtraPorts(base)}

InitPort ==
    /\ EngineIdle
    /\ \E b \in TestBases : \E o \in OccupiedSets(b) :
         arg = [NoArg EXCEPT !.fn = "port", !.base = b, !.occ = o]
    /\ ret = NoRet

\* one call of get_available_port(arg.base) with arg.occ occupied
CallGetAvailablePort ==
    /\ arg.fn = "port"
    /\ ret.kind = "none"
    /\ LET res == AvailablePortOf(arg.base, arg.occ)
       IN ret' = [NoRet EXCEPT !.kind = res.kind, !.value = res.port]
    /\ UNCHANGED <<runs, Engine, store, IndexSide, arg>>

NextPort == CallGetAvailablePort

SpecPort == InitPort /\ [][NextPort]_vars

\* second octets of the subnets the network allocator is tried on
TestOctets == {5, 16, 17, 18, 19, 171, 172, 255}
TestSubnets == {FormatSubnet(FormatBase(n)) : n \in TestOctets} \cup {ForeignSubnet}
SubnetLists == UNION {[1..n -> TestSubnets] : n \in 0..MaxSubnets}

InitNet ==
    /\ EngineIdle
    /\ \E ss \in SubnetLists :
         arg = [NoArg EXCEPT !.fn = "net", !.subnets = ss]
    /\ ret = NoRet

\* one call of get_network_base with the engine listing arg.subnets
CallGetNetworkBase ==
    /\ arg.fn = "net"
    /\ ret.kind = "none"
    /\ LET res == NetworkBaseOf(arg.subnets)
       IN ret' = [NoRet EXCEPT !.kind = res.kind, !.value = res.octet, !.base = res.base]
    /\ UNCHANGED <<runs, Engine, store, IndexSide, arg>>

NextNet == CallGetNetworkBase

SpecNet == InitNet /\ [][NextNet]_vars

-----------------------------------------------------------------------------
(* The error conversion on its own *)

\* characters the SQLSTATE codes tried are made of
CodeChars == {"0", "2", "3", "5"}
SqlStates == [1..SqlStateLen -> CodeChars]

\* the errors the conversion is tried on: the variants without a database error, and
\* database errors of every code tried, with and without a detail, that downcast to a
\* PgError or do not
ErrorInputs ==
    {SqlxError(v, FALSE, <<>>, FALSE) : v \in {"RowNotFound", "Io", "Decode", "PoolTimedOut"}}
        \cup {SqlxError("Database", pg, code, d) :
                 pg \in BOOLEAN, code \in SqlStates, d \in BOOLEAN}

InitErr ==
    /\ EngineIdle
    /\ \E e \in ErrorInputs : arg = [NoArg EXCEPT !.fn = "err", !.err = e]
    /\ ret = NoRet

\* one call of ProvideError::from(arg.err)
CallProvideErrorFrom ==
    /\ arg.fn = "err"
    /\ ret.kind = "none"
    /\ LET res == ProvideErrorOf(arg.err)
       IN ret' = [NoRet EXCEPT !.kind = IF res = "panic" THEN "panic" ELSE "ok",
                               !.error = res]
    /\ UNCHANGED <<runs, Engine, store, IndexSide, arg>>

NextErr == CallProvideErrorFrom

SpecErr == InitErr /\ [][NextErr]_vars

-----------------------------------------------------------------------------
(* The conversions between the two IndexStatus enums, applied to pairs of statuses
   and then back *)

\* the values of the enum a conversion starts from
StatusesOf(to) ==
    IF to = "db" THEN {IndexStatus[i] : i \in DOMAIN IndexStatus}
    ELSE {DbIndexStatus[i] : i \in DOMAIN DbIndexStatus}

\* status.into() with the target type db::IndexStatus or IndexStatus
StatusInto(to, status) ==
    IF to = "db" THEN DbIndexStatusFrom(status) ELSE IndexStatusFrom(status)

\* the other enum
BackFrom(to) == IF to = "db" THEN "api" ELSE "db"

InitStatus ==
    /\ EngineIdle
    /\ \E to \in {"db", "api"} : \E a \in StatusesOf(to) : \E b \in StatusesOf(to) :
         arg = [NoArg EXCEPT !.fn = "status", !.to = to, !.statuses = <<a, b>>]
    /\ ret = NoRet

\* the two statuses converted to the other enum
CallStatusFrom ==
    /\ arg.fn = "status"
    /\ ret.kind = "none"
    /\ ret' = [NoRet EXCEPT
                  !.kind = "ok",
                  !.converted = [i \in DOMAIN arg.statuses |->
                                    StatusInto(arg.to, arg.statuses[i])]]
    /\ UNCHANGED <<runs, Engine, store, IndexSide, arg>>

\* the converted statuses converted back
CallStatusBack ==
    /\ arg.fn = "status"
    /\ ret.kind = "ok"
    /\ ret.back = <<>>
    /\ ret' = [ret EXCEPT
                  !.back = [i \in DOMAIN ret.converted |->
                               StatusInto(BackFrom(arg.to), ret.converted[i])]]
    /\ UNCHANGED <<runs, Engine, store, IndexSide, arg>>

NextStatus == CallStatusFrom \/ CallStatusBack

SpecStatus == InitStatus /\ [][NextStatus]_vars

-----------------------------------------------------------------------------
(* Requests against a store that holds the environments of an earlier lifetime of
   the server: State::new connects to the database as it finds it *)

\* an Environment row stored before this lifetime of the server
EarlierRow(i) ==
    [id |-> 100 + i, name |-> IF i = 1 THEN "dev1" ELSE "dev2", port |-> 9000 + i, run |-> 0]

\* an Index row stored before this lifetime of the server
EarlierIndex(i, env) ==
    [id |-> i, environment |-> env, req |-> 0, status |-> DbIndexStatus[1]]

\* the store as the server finds it: its environments and their indexes
EarlierStores ==
    { [store |-> <<>>, indexes |-> <<>>],
      [store |-> <<EarlierRow(1)>>, indexes |-> <<>>],
      [store |-> <<EarlierRow(1), EarlierRow(2)>>,
       indexes |-> <<EarlierIndex(1, 102), EarlierIndex(2, 101)>>] }

InitStore ==
    /\ runs = [r \in Runs |-> IdleRun]
    /\ networks = [i \in 1..2 |->
                      InitialNetwork(i, FormatSubnet(FormatBase(IF i = 1 THEN 17 ELSE 19)))]
    /\ containers = {}
    /\ images = {}
    /\ occupied = {9000, 9001}
    /\ \E s \in EarlierStores : store = s.store /\ indexes = s.indexes
    /\ reqs = [c \in Clients |-> IdleReq]
    /\ arg = NoArg
    /\ ret = NoRet

\* the requests followed next to one createEnvironment request
StoreClients == {c \in Clients : c <= 2}
StoreRuns == {r \in Runs : r = 1}

NextStore ==
    \/ \E r \in StoreRuns :
        \/ Request(r)
        \/ GetConfig(r)
        \/ Connect(r)
        \/ GetNetworkBase(r)
        \/ GetAvailablePort(r)
        \/ CreateNetwork(r)
        \/ CreateImage(r)
        \/ CreateContainer(r)
        \/ StartContainer(r)
        \/ Begin(r)
        \/ StoreEnvironment(r)
        \/ Commit(r)
    \/ \E c \in StoreClients :
        \/ ListRequest(c)
        \/ ListBegin(c)
        \/ GetAllEnvironments(c)
        \/ InnerBegin(c)
        \/ GetEnvironmentIndexes(c)
        \/ InnerCommit(c)
        \/ ListCommit(c)
        \/ IndexRequest(c)
        \/ IndexBegin(c)
        \/ StoreIndex(c)
        \/ IndexCommit(c)

SpecStore == InitStore /\ [][NextStore]_vars

\* the requests of SpecStore and the delete_environment calls of a collaborator
NextCollab ==
    \/ NextStore
    \/ \E c \in StoreClients :
        \/ DeleteRequest(c)
        \/ DeleteBegin(c)
        \/ DeleteStore(c)
        \/ DeleteCommit(c)

SpecCollab == InitStore /\ [][NextCollab]_vars

\* as many listEnvironments requests at once as the pool has connections
NextPool ==
    \E c \in Clients :
        \/ ListRequest(c)
        \/ ListBegin(c)
        \/ GetAllEnvironments(c)
        \/ InnerBegin(c)
        \/ GetEnvironmentIndexes(c)
        \/ InnerCommit(c)
        \/ ListCommit(c)

\* the stores of at most one environment
InitPool == InitStore /\ Len(store) <= 1

SpecPool == InitPool /\ [][NextPool]_vars

-----------------------------------------------------------------------------
(* Properties of a create_environment run *)

Last(seq) == seq[Len(seq)]

LaunchSteps == {"create_image", "create_container", "start_container"}
StoreSteps == {"begin", "store", "commit"}

\* the steps of the pipeline, numbered in the order the code runs them
\* (0: loading the configuration and connecting to the engine)
StageOf(step) ==
    CASE step = "get_network_base" -> 1
      [] step = "get_available_port" -> 2
      [] step = "create_network" -> 3
      [] step \in LaunchSteps -> 4
      [] step \in StoreSteps -> 5
      [] OTHER -> 0

\* the same steps numbered as the pipeline's state machine is written down:
\* PortAllocated before NetworkBaseChosen
StatedStageOf(step) ==
    CASE step = "get_available_port" -> 1
      [] step = "get_network_base" -> 2
      [] OTHER -> StageOf(step)

\* the log runs through the stages in increasing order (never back to an earlier
\* stage), skips none (each stage is entered from the one before it), and holds
\* nothing after a step that failed
InOrder(run, stage(_)) ==
    /\ run.log # <<>> => stage(run.log[1].step) <= 1
    /\ \A i \in 1..(Len(run.log) - 1) :
          /\ stage(run.log[i].step) <= stage(run.log[i + 1].step)
          /\ stage(run.log[i + 1].step) <= stage(run.log[i].step) + 1
          /\ run.log[i].ok
    /\ (run.log # <<>> /\ ~Last(run.log).ok) => run.pc \in {"failed", "panicked"}
    /\ run.pc \in {"failed", "panicked"} => ~Last(run.log).ok

RowsOf(r) == {i \in DOMAIN store : store[i].run = r}

Succeeded(run, step, svc) ==
    \E i \in DOMAIN run.log :
        run.log[i].step = step /\ run.log[i].svc = svc /\ run.log[i].ok

\* C1 as stated: port allocation, network base, network creation, launches,
\* persistence, each after the previous one succeeded, a failure ending the run
C1_StatedOrder == \A r \in Runs : InOrder(runs[r], StatedStageOf)

\* C1 (amended): within every run the steps happen in the order network-base choice,
\* host-port allocation, network creation, service launches, persistence; no step
\* starts before the previous one succeeded, and after a failing step the run is
\* terminal and executes no later step
C1_PipelineOrder == \A r \in Runs : InOrder(runs[r], StageOf)

C1_Witness ==
    \E r \in Runs :
        /\ runs[r].pc = "done"
        /\ \E q \in Runs : runs[q].pc = "failed" /\ Last(runs[q].log).step = "create_network"

\* C2: a row of a run is in the store only if the run started every configured
\* service and its commit succeeded; a run has at most one row; the caller gets a
\* success response exactly when the commit succeeded; a failed run has no row
C2_RowOnlyAfterCommit ==
    \A r \in Runs :
        /\ Cardinality(RowsOf(r)) <= 1
        /\ RowsOf(r) # {} =>
              /\ \A k \in DOMAIN runs[r].config :
                    /\ Succeeded(runs[r], "start_container", k)
                    /\ \E c \in containers :
                          /\ c.run = r
                          /\ c.service = runs[r].config[k].service
                          /\ c.running
              /\ Succeeded(runs[r], "commit", runs[r].k)
        /\ (runs[r].response = "ok") <=> (RowsOf(r) # {})
        /\ (runs[r].response = "ok") <=> Succeeded(runs[r], "commit", runs[r].k)
        /\ runs[r].pc \in {"failed", "panicked"} => RowsOf(r) = {}

C2_Witness ==
    /\ Len(store) = 1
    /\ \E r \in Runs : runs[r].pc = "failed" /\ Last(runs[r].log).step = "commit"

C8_NoOctetNoResources ==
    \A r \in Runs : \A ss \in runs[r].listed :
        (\A i \in DOMAIN ss : SubnetId(ss[i]) = -1) =>
            /\ runs[r].network_base = <<>>
            /\ runs[r].pc = "panicked"
            /\ Last(runs[r].log).step = "get_network_base"
            /\ \A i \in DOMAIN networks : networks[i].run # r
            /\ \A c \in containers : c.run # r
            /\ RowsOf(r) = {}

C8_Witness ==
    \E r \in Runs : \E ss \in runs[r].listed :
        /\ ss # <<>>
        /\ \A i \in DOMAIN ss : SubnetId(ss[i]) = -1
        /\ runs[r].pc = "panicked"

\* the position of a service in the configuration of the run that launched it
ServiceIndex(run, service) == CHOOSE k \in DOMAIN run.config : run.config[k].service = service

\* C9: when pull, create or start fails for the k-th service, the run returns an
\* engine error and no pull, create or start is issued for a later service
C9_LaunchShortCircuits ==
    \A r \in Runs : \A i \in DOMAIN runs[r].log :
        LET e == runs[r].log[i]
        IN (e.step \in LaunchSteps /\ ~e.ok) =>
              /\ i = Len(runs[r].log)
              /\ runs[r].pc = "failed"
              /\ runs[r].error = "DockerError"
              /\ runs[r].response = "error"
              /\ \A j \in DOMAIN runs[r].log :
                    runs[r].log[j].step \in LaunchSteps => runs[r].log[j].svc <= e.svc
              /\ \A c \in containers :
                    c.run = r => ServiceIndex(runs[r], c.service) <= e.svc
              /\ \A c \in containers :
                    (c.run = r /\ c.running) =>
                        (ServiceIndex(runs[r], c.service) < e.svc)

C9_Witness ==
    \E r \in Runs :
        /\ runs[r].pc = "failed"
        /\ Last(runs[r].log).step \in LaunchSteps
        /\ Last(runs[r].log).svc = 1
        /\ Len(runs[r].config) > 1

\* nothing the engine holds is removed or stopped by a step
NothingRemoved ==
    /\ Len(networks') >= Len(networks)
    /\ SubSeq(networks', 1, Len(networks)) = networks
    /\ images \subseteq images'
    /\ \A c \in containers :
          \E d \in containers' : d.name = c.name /\ d.run = c.run /\ (c.running => d.running)

\* container creation failed for the second service of run r
SecondCreateFailed(r) ==
    /\ runs[r].log # <<>>
    /\ Last(runs[r].log) = [step |-> "create_container", svc |-> 2, ok |-> FALSE]

\* C10: when container creation fails for the second service the run returns an
\* engine error, no Environment row is stored, and the run's network and its first
\* container are still there, the container running; and no step of any run removes
\* a network, an image or a container
C10_NoRollback ==
    /\ [](\A r \in Runs :
            SecondCreateFailed(r) =>
                /\ runs[r].pc = "failed"
                /\ runs[r].error = "DockerError"
                /\ RowsOf(r) = {}
                /\ \E i \in DOMAIN networks :
                      networks[i].run = r /\ networks[i].id = runs[r].network_id
                /\ \E c \in containers :
                      /\ c.run = r
                      /\ c.service = runs[r].config[1].service
                      /\ c.running)
    /\ [][NothingRemoved]_vars

C10_Witness ==
    \E r \in Runs : SecondCreateFailed(r) /\ \E q \in Runs : q > r /\ runs[q].pc = "done"

\* what a run of createEnvironment has in the engine
NetworksOf(r) == {i \in DOMAIN networks : networks[i].run = r}
ContainersOf(r) == {c \in containers : c.run = r}

\* the errors create_environment returns from its store phase
StoreErrors == {"DBError", "NotFound", "UniqueViolation", "ModelViolation", "UnHandledError"}

\* the store call or the commit of run r failed
StoreStepFailed(r) ==
    /\ runs[r].log # <<>>
    /\ Last(runs[r].log).step \in {"store", "commit"}
    /\ ~Last(runs[r].log).ok

\* C11: when the store call or the commit fails after the services were launched, the
\* run has failed with a store error, has no Environment row, and its network and the
\* container of every configured service, running, are still in the engine
C11_StoreFailureKeepsEngine ==
    \A r \in Runs :
        StoreStepFailed(r) =>
            /\ runs[r].pc = "failed"
            /\ runs[r].error \in StoreErrors
            /\ runs[r].response = "error"
            /\ RowsOf(r) = {}
            /\ \E i \in NetworksOf(r) : networks[i].id = runs[r].network_id
            /\ \A k \in DOMAIN runs[r].config :
                  \E c \in ContainersOf(r) :
                      c.service = runs[r].config[k].service /\ c.running

C11_Witness ==
    \E r \in Runs :
        /\ StoreStepFailed(r)
        /\ Last(runs[r].log).step = "commit"
        /\ Cardinality(ContainersOf(r)) = 2
        /\ \E q \in Runs : q > r /\ Terminal(runs[q])

\* the steps of create_twerg that come before anything is asked of the engine
ReadOnlySteps == {"get_config", "connect", "get_network_base", "get_available_port"}

\* C12 as stated: when createEnvironment is called a second time with the name of an
\* environment a first call stored, the second call adds no network and no container
\* to the engine, does not succeed, leaves the first call's row in place, and, unless
\* it failed before asking anything of the engine, returns UniqueViolation
C12_SecondCallUniqueViolation ==
    \A r \in Runs : \A q \in Runs :
        (r < q /\ runs[r].pc = "done" /\ runs[q].name = runs[r].name) =>
            /\ NetworksOf(q) = {}
            /\ ContainersOf(q) = {}
            /\ RowsOf(r) # {}
            /\ runs[q].pc # "done"
            /\ (Terminal(runs[q]) /\ Last(runs[q].log).step \notin ReadOnlySteps) =>
                  runs[q].error = "UniqueViolation"

\* both runs have a base and a port, chosen from the same listing and the same scan
SameChoices(r, q) ==
    /\ runs[r].network_base # <<>>
    /\ runs[r].network_base = runs[q].network_base
    /\ runs[r].twerg_port # -1
    /\ runs[r].twerg_port = runs[q].twerg_port

\* C13: an allocation scan takes no reservation: between a run's choice of a base and
\* its create_network the engine holds no network of the run, the base and the port
\* it holds are the ones the allocators give for the listing and the scan it read, and
\* two runs that read the same listing or the same scan hold the same base or port
C13_ScansTakeNoReservation ==
    \A r \in Runs :
        /\ runs[r].pc \in {"get_available_port", "create_network"} => NetworksOf(r) = {}
        /\ \A ss \in runs[r].listed :
              runs[r].network_base # <<>> => runs[r].network_base = NetworkBaseOf(ss).base
        /\ \A sc \in runs[r].scan :
              runs[r].twerg_port # -1 =>
                  runs[r].twerg_port = AvailablePortOf(sc[1], sc[2]).port
        /\ \A q \in Runs :
              /\ (runs[q].listed = runs[r].listed /\ runs[q].network_base # <<>>
                    /\ runs[r].network_base # <<>>)
                    => runs[q].network_base = runs[r].network_base
              /\ (runs[q].scan = runs[r].scan /\ runs[q].twerg_port # -1
                    /\ runs[r].twerg_port # -1)
                    => runs[q].twerg_port = runs[r].twerg_port

\* two requests with different names, in flight together, hold the same subnet base
\* and the same host port, neither having created its network
C13_Witness ==
    \E r \in Runs : \E q \in Runs :
        /\ r # q
        /\ runs[r].name # runs[q].name
        /\ runs[r].pc = "create_network"
        /\ runs[q].pc = "create_network"
        /\ SameChoices(r, q)

\* C14: with createEnvironment runs one at a time, no two networks of the engine have
\* the same subnet
C14_DistinctSubnets ==
    \A i \in DOMAIN networks : \A j \in DOMAIN networks :
        i < j => networks[i].subnets # networks[j].subnets

\* the host ports a container binds to its port 80
IngressPorts(c) == {b[2] : b \in {x \in c.bindings : x[1] = 80}}

\* C15: the port of a stored Environment row is the port get_available_port returned
\* in the run that stored it, never the 0 the request arrived with, and, with nginx
\* among the services, the host port bound to port 80 of the run's nginx container
C15_StoredPortIsAllocated ==
    \A i \in DOMAIN store :
        LET r == store[i].run
        IN r \in Runs =>
              /\ store[i].port # 0
              /\ store[i].port = runs[r].twerg_port
              /\ \E sc \in runs[r].scan :
                    AvailablePortOf(sc[1], sc[2]) = [kind |-> "ok", port |-> store[i].port]
              /\ \A k \in DOMAIN runs[r].config :
                    runs[r].config[k].service = IngressService =>
                        \E c \in ContainersOf(r) :
                            /\ c.service = IngressService
                            /\ IngressPorts(c) = {store[i].port}

C15_Witness ==
    \E i \in DOMAIN store :
        /\ store[i].run \in Runs
        /\ store[i].port = 9002
        /\ \E c \in ContainersOf(store[i].run) : IngressPorts(c) = {9002}

\* the configuration entry a container was created from
ConfiguredFor(c) == runs[c.run].config[ServiceIndex(runs[c.run], c.service)]

\* C16 as stated: the nginx container binds exactly port 80 to the allocated port and
\* the container of every other service binds no host port
C16_OnlyIngressBound ==
    \A c \in containers :
        /\ c.service = IngressService => c.bindings = {<<80, runs[c.run].twerg_port>>}
        /\ c.service # IngressService => c.bindings = {}

\* C16 (amended): the nginx container binds exactly port 80 to the allocated port,
\* whatever its configuration entry says; the container of any other service binds
\* the ports its configuration entry gives an external port for, and none when the
\* entry gives none
C16_BindingsAsConfigured ==
    \A c \in containers :
        /\ c.service = IngressService => c.bindings = {<<80, runs[c.run].twerg_port>>}
        /\ c.service # IngressService =>
              c.bindings = {b \in ConfiguredFor(c).ports : b[2] # -1}

C16_Witness ==
    \E c \in containers : \E d \in containers :
        /\ c.run = d.run
        /\ c.service = IngressService
        /\ c.bindings = {<<80, 9002>>}
        /\ d.service = "elasticsearch"
        /\ d.bindings = {<<9200, 9200>>}

-----------------------------------------------------------------------------
(* Properties of the error conversion (SpecErr) *)

\* the function under test was called and has returned or panicked
Called(fn) == arg.fn = fn /\ ret.kind # "none"

\* the error handed to the conversion is a Postgres error of this code
PgCode(code) == arg.err.variant = "Database" /\ arg.err.pg /\ arg.err.code = code

\* the error handed to the conversion is a Postgres error of the constraint class
PgConstraint ==
    arg.err.variant = "Database" /\ arg.err.pg /\ StartsWith(arg.err.code, ConstraintClass)

\* C17: the conversion gives every error exactly one kind: NotFound for row-not-found,
\* UniqueViolation for a database error of code 23505, ModelViolation for a database
\* error of any other code beginning with 23, UnHandledError for every other error
C17_Classification ==
    Called("err") =>
        /\ ret.kind = "ok"
        /\ ret.error \in {"NotFound", "UniqueViolation", "ModelViolation", "UnHandledError"}
        /\ ret.error = "NotFound" <=> arg.err.variant = "RowNotFound"
        /\ ret.error = "UniqueViolation" <=> PgCode(UniqueCode)
        /\ ret.error = "ModelViolation" <=> (PgConstraint /\ ~PgCode(UniqueCode))
        /\ ret.error = "UnHandledError" <=>
              (arg.err.variant # "RowNotFound" /\ ~PgConstraint)

\* the pulls, creates and starts of a run, in the order they were made
LaunchLog(run) == SelectSeq(run.log, LAMBDA e : e.step \in LaunchSteps)

\* the launch step that follows a successful launch step e
FollowsInLaunch(e, f) ==
    CASE e.step = "create_image" -> f.step = "create_container" /\ f.svc = e.svc
      [] e.step = "create_container" -> f.step = "start_container" /\ f.svc = e.svc
      [] e.step = "start_container" -> f.step = "create_image" /\ f.svc = e.svc + 1

\* C23: within a run the launch operations are pull, create, start of the first
\* service, then of the second, and so on, each after the previous one succeeded: a
\* container exists only after its image was pulled, runs only after it was created,
\* and the pull for service k+1 follows the start of service k
C23_LaunchOrder ==
    \A r \in Runs :
        LET l == LaunchLog(runs[r])
        IN /\ l # <<>> => l[1].step = "create_image" /\ l[1].svc = 1
           /\ \A i \in 1..(Len(l) - 1) : l[i].ok /\ FollowsInLaunch(l[i], l[i + 1])
           /\ runs[r].pc \in LaunchSteps =>
                 IF l = <<>>
                 THEN runs[r].pc = "create_image" /\ runs[r].k = 1
                 ELSE /\ Last(l).ok
                      /\ FollowsInLaunch(Last(l), [step |-> runs[r].pc, svc |-> runs[r].k])
           /\ \A c \in containers :
                 c.run = r =>
                     LET k == ServiceIndex(runs[r], c.service)
                     IN /\ Succeeded(runs[r], "create_image", k)
                        /\ Succeeded(runs[r], "create_container", k)
                        /\ c.running => Succeeded(runs[r], "start_container", k)

\* two runs with two services each, both launched to the end
C23_Witness ==
    \A r \in Overlapping :
        /\ Len(LaunchLog(runs[r])) = 6
        /\ Last(LaunchLog(runs[r])).ok

\* C24: when the engine has created the network of a run and its answer carried no
\* id, the run has failed with MiscError, which is not the error of a failed engine
\* call, after create_network as its last call: no service was pulled, created or
\* started, no row is stored, and the network is still in the engine; and only that
\* case gives MiscError
C24_NoIdStopsRun ==
    \A r \in Runs :
        /\ (NetworksOf(r) # {} /\ runs[r].network_id = 0) <=> runs[r].error = "MiscError"
        /\ runs[r].error = "MiscError" =>
              /\ runs[r].error \notin {"DockerError"} \cup StoreErrors
              /\ runs[r].pc = "failed"
              /\ runs[r].response = "error"
              /\ Last(runs[r].log) = [step |-> "create_network", svc |-> 0, ok |-> FALSE]
              /\ LaunchLog(runs[r]) = <<>>
              /\ ContainersOf(r) = {}
              /\ RowsOf(r) = {}
              /\ Cardinality(NetworksOf(r)) = 1
              /\ \A i \in NetworksOf(r) :
                    networks[i].subnets = <<FormatSubnet(runs[r].network_base)>>

\* the failure after an earlier run that went through, and the run's network among
\* the engine's
C24_Witness ==
    \E r \in Runs : \E q \in Runs :
        /\ runs[r].error = "MiscError"
        /\ NetworksOf(r) # {}
        /\ runs[q].pc = "done"

\* the last call of run r was one of the two allocators, and it failed
AllocatorFailed(r) ==
    /\ runs[r].log # <<>>
    /\ Last(runs[r].log).step \in {"get_network_base", "get_available_port"}
    /\ ~Last(runs[r].log).ok

\* C25: a run in which the network allocator or the port allocator failed is over
\* and has made no create_network and no launch call: the engine holds no network and
\* no container of it and the store no row; and no step of a run up to and including
\* its allocator calls changes the engine's networks, images and containers, the
\* host's ports or the store, so that all are as they were when the request arrived
C25_AllocatorFailureFrame ==
    /\ [](\A r \in Runs :
            AllocatorFailed(r) =>
                /\ runs[r].pc \in {"failed", "panicked"}
                /\ \A i \in DOMAIN runs[r].log :
                      runs[r].log[i].step \in ReadOnlySteps
                /\ NetworksOf(r) = {}
                /\ ContainersOf(r) = {}
                /\ RowsOf(r) = {})
    /\ [][\A r \in Runs :
            (runs[r].pc \in {"idle"} \cup ReadOnlySteps /\ runs'[r] # runs[r]) =>
                UNCHANGED <<networks, images, containers, occupied, store>>]_vars

\* an allocator failed in one run, and the engine holds the containers of another
\* run that went through
C25_Witness ==
    \E r \in Runs : \E q \in Runs :
        /\ AllocatorFailed(r)
        /\ runs[q].pc = "done"
        /\ ContainersOf(q) # {}

\* C26: every container is attached to the network created for its run, its static
\* address is <base>.0.<suffix> for the base the network allocator chose for that
\* run, inside the network's subnet <base>.0.0/16, and its gateway is the network's
\* gateway <base>.0.1
C26_AddressInRunSubnet ==
    \A c \in containers :
        LET run == runs[c.run]
        IN /\ c.network_id = run.network_id
           /\ \E i \in DOMAIN networks :
                 /\ networks[i].id = c.network_id
                 /\ networks[i].run = c.run
                 /\ networks[i].subnets = <<FormatSubnet(run.network_base)>>
                 /\ networks[i].gateway = c.gateway
           /\ StartsWith(c.ip_address, run.network_base \o <<".", "0", ".">>)
           /\ c.gateway = FormatGateway(run.network_base)

\* the configuration of the run that stored row i has the ingress service
HasIngress(i) ==
    /\ store[i].run \in Runs
    /\ \E k \in DOMAIN runs[store[i].run].config :
          runs[store[i].run].config[k].service = IngressService

\* C27: with the runs made one at a time, nginx among the configured services and
\* no container ever stopped, two stored Environments never have the same host
\* port, and the port of each is held on the host
C27_DistinctHostPorts ==
    \A i \in DOMAIN store : \A j \in DOMAIN store :
        (i # j /\ HasIngress(i) /\ HasIngress(j)) =>
            /\ store[i].port # store[j].port
            /\ store[i].port \in occupied
            /\ store[j].port \in occupied

\* two stored Environments of runs that launched nginx
C27_Witness ==
    /\ Len(store) = 2
    /\ HasIngress(1)
    /\ HasIngress(2)
    /\ \A c \in containers : c.running

-----------------------------------------------------------------------------
(* Properties of listEnvironments and createIndex (SpecStore, SpecPool) *)

IndexRowsOf(c) == {i \in DOMAIN indexes : indexes[i].req = c}

\* C18: a createIndex whose environment id the store does not hold when the insert is
\* made never succeeds and stores no Index; when the store rejects the insert the
\* error is ModelViolation or NotFound; and every stored Index references a stored
\* Environment
C18_NoOrphanIndex ==
    /\ \A i \in DOMAIN indexes : EnvironmentExists(indexes[i].environment)
    /\ \A c \in Clients :
          reqs[c].op = "index" =>
              /\ IndexRowsOf(c) # {} <=> reqs[c].response.kind = "ok"
              /\ IndexRowsOf(c) # {} => reqs[c].found
              /\ reqs[c].pc \in {"commit", "done"} => reqs[c].found
              /\ reqs[c].cause \in {"Database", "RowNotFound"} =>
                    /\ reqs[c].pc = "failed"
                    /\ ~reqs[c].found
                    /\ reqs[c].error \in {"ModelViolation", "NotFound"}
                    /\ reqs[c].response.kind = "error"

\* one createIndex was rejected for an environment that another one, later, got its
\* Index stored for
C18_Witness ==
    \E c \in Clients : \E d \in Clients :
        /\ reqs[c].op = "index"
        /\ reqs[c].error = "ModelViolation"
        /\ reqs[d].op = "index"
        /\ reqs[d].environment = reqs[c].environment
        /\ IndexRowsOf(d) # {}

IsPrefix(s, u) == Len(s) <= Len(u) /\ SubSeq(u, 1, Len(s)) = s

\* the indexes of an environment that were stored before any request of this lifetime
EarlierIndexes(id) == {x.id : x \in {indexes[i] : i \in {j \in DOMAIN indexes :
                                        indexes[j].req = 0 /\ indexes[j].environment = id}}}

\* C19: in a listEnvironments response the count is the number of environments, the
\* environments are the store's, in the store's order, and the indexes attached to an
\* environment are indexes the store lists for that environment's id, in the store's
\* order, none missing that was stored before the request
C19_ListResponse ==
    \A c \in Clients :
        LET resp == reqs[c].response
        IN (reqs[c].op = "list" /\ resp.kind = "ok") =>
              /\ resp.envs_count = Len(resp.envs)
              /\ Len(resp.envs) <= Len(store)
              /\ \A i \in DOMAIN resp.envs :
                    /\ resp.envs[i].id = store[i].id
                    /\ resp.envs[i].name = store[i].name
                    /\ resp.envs[i].port = store[i].port
                    /\ IsPrefix(resp.envs[i].indexes, ListedIndexes(resp.envs[i].id))
                    /\ EarlierIndexes(resp.envs[i].id)
                          \subseteq {resp.envs[i].indexes[j] : j \in DOMAIN resp.envs[i].indexes}

\* a response with two environments, the second with an earlier index and one stored
\* in this lifetime
C19_Witness ==
    \E c \in Clients :
        LET resp == reqs[c].response
        IN /\ reqs[c].op = "list"
           /\ resp.kind = "ok"
           /\ resp.envs_count = 2
           /\ resp.envs[1].id = 101
           /\ Len(resp.envs[1].indexes) = 2
           /\ resp.envs[2].indexes = <<1>>

\* a request that holds a connection and stands at the checkout of another one
WaitingForSecond(c) == reqs[c].conns >= 1 /\ reqs[c].pc = "inner_begin"

\* C20: the connections of the pool are never all held by requests that each wait for
\* another connection
C20_NoPoolStarvation ==
    InUse = PoolSize =>
        \/ \E r \in Runs : runs[r].tx # "none"
        \/ \E c \in Clients : reqs[c].conns >= 1 /\ ~WaitingForSecond(c)

\* the call of list_environments that follows the successful call e, with n
\* environments listed
FollowsInList(e, f, n) ==
    CASE e.step = "begin" -> f.step = "get_all_environments"
      [] e.step = "get_all_environments" ->
            IF n = 0 THEN f.step = "commit" ELSE f.step = "inner_begin" /\ f.k = 1
      [] e.step = "inner_begin" -> f.step = "get_environment_indexes" /\ f.k = e.k
      [] e.step = "get_environment_indexes" -> f.step = "inner_commit" /\ f.k = e.k
      [] e.step = "inner_commit" ->
            IF e.k < n THEN f.step = "inner_begin" /\ f.k = e.k + 1 ELSE f.step = "commit"
      [] e.step = "commit" -> FALSE

\* the successful calls of the given steps in a request's history
Done(req, steps) == {i \in DOMAIN req.log : req.log[i].step \in steps /\ req.log[i].ok}

\* the transactions a request has begun and not committed
OpenTransactions(req) ==
    Cardinality(Done(req, {"begin", "inner_begin"}))
        - Cardinality(Done(req, {"inner_commit", "commit"}))

\* C28: listEnvironments begins the outer transaction first, then for each listed
\* environment in turn begins one more transaction, queries the indexes in it and
\* commits it before the next one is begun, and commits the outer transaction last;
\* it holds one connection per open transaction, never more than two
C28_ListTransactions ==
    \A c \in Clients :
        LET req == reqs[c]
            n == Len(req.entities)
        IN req.op = "list" =>
              /\ req.log # <<>> => req.log[1].step = "begin"
              /\ \A i \in 1..(Len(req.log) - 1) :
                    req.log[i].ok /\ FollowsInList(req.log[i], req.log[i + 1], n)
              /\ (req.log # <<>> /\ req.pc \notin {"done", "failed"}) =>
                    /\ Last(req.log).ok
                    /\ FollowsInList(Last(req.log), [step |-> req.pc, k |-> req.k], n)
              /\ req.conns <= 2
              /\ req.pc # "failed" => req.conns = OpenTransactions(req)
              /\ req.conns = 2 <=> req.pc \in {"get_environment_indexes", "inner_commit"}
              /\ req.pc = "done" =>
                    /\ Last(req.log) = [step |-> "commit", k |-> n, ok |-> TRUE]
                    /\ Cardinality(Done(req, {"begin"})) = 1
                    /\ Cardinality(Done(req, {"inner_begin"})) = n
                    /\ Cardinality(Done(req, {"inner_commit"})) = n
                    /\ req.response.envs_count = n

\* two listEnvironments requests over two environments, both answered
C28_Witness ==
    \A c \in StoreClients :
        /\ reqs[c].op = "list"
        /\ reqs[c].pc = "done"
        /\ Len(reqs[c].entities) = 2

\* C29: a listEnvironments request in which a call failed, for any environment, has
\* ended with an error response that carries no environment; the failed call is its
\* last call, so that no index query was made for a later environment, and the
\* request does nothing afterwards; a success response has every listed environment
\* after a successful index query for each
C29_ListAllOrNothing ==
    /\ [](\A c \in Clients :
            LET req == reqs[c]
            IN req.op = "list" =>
                  /\ \A i \in DOMAIN req.log :
                        ~req.log[i].ok =>
                            /\ i = Len(req.log)
                            /\ req.pc = "failed"
                            /\ \A j \in DOMAIN req.log :
                                  req.log[j].step = "get_environment_indexes" =>
                                      req.log[j].k <= req.log[i].k
                  /\ req.pc = "failed" =>
                        /\ ~Last(req.log).ok
                        /\ req.error \in StoreErrors
                        /\ req.response = [NoResponse EXCEPT !.kind = "error"]
                        /\ req.conns = 0
                  /\ req.response.kind = "ok" =>
                        /\ req.pc = "done"
                        /\ Len(req.response.envs) = Len(req.entities)
                        /\ \A k \in DOMAIN req.entities :
                              \E i \in DOMAIN req.log :
                                  req.log[i] = [step |-> "get_environment_indexes",
                                                k |-> k, ok |-> TRUE])
    /\ [][\A c \in Clients : reqs[c].pc = "failed" => reqs'[c] = reqs[c]]_vars

\* the call for the first of two environments failed after its index query
C29_Witness ==
    \E c \in Clients :
        /\ reqs[c].op = "list"
        /\ reqs[c].pc = "failed"
        /\ Len(reqs[c].entities) = 2
        /\ Last(reqs[c].log) = [step |-> "inner_commit", k |-> 1, ok |-> FALSE]

-----------------------------------------------------------------------------
(* Properties of the store's rows under every operation of the core (SpecCollab) *)

\* C21: every stored Index has the status NotAvailable, a createIndex response
\* reports that status, and no step changes the status of an Index that stays stored
C21_StatusNotAvailable ==
    /\ [](/\ \A i \in DOMAIN indexes : indexes[i].status = "not_available"
          /\ \A c \in Clients :
                (reqs[c].op = "index" /\ reqs[c].response.kind = "ok") =>
                    reqs[c].response.status = "NotAvailable")
    /\ [][\A i \in DOMAIN indexes : \A j \in DOMAIN indexes' :
            indexes'[j].id = indexes[i].id => indexes'[j].status = indexes[i].status]_vars

\* an Index stored by a createIndex of this lifetime next to one of an earlier
\* lifetime, after a delete_environment has removed an environment
C21_Witness ==
    /\ \E c \in Clients : reqs[c].op = "index" /\ IndexRowsOf(c) # {}
    /\ \E i \in DOMAIN indexes : indexes[i].req = 0
    /\ \E c \in Clients : reqs[c].op = "delete" /\ reqs[c].pc = "done"

\* the calls of the store's writing procedures
ProcedureSteps == {"store", "create_index", "delete_environment"}

\* the procedure call of a history failed
ProcedureFailed(log) ==
    \E i \in DOMAIN log : log[i].step \in ProcedureSteps /\ ~log[i].ok

\* a history in which the procedure call, when made, follows a successful begin, and
\* a commit, when made, follows a successful procedure call
InsideTransaction(log) ==
    \A i \in DOMAIN log :
        /\ log[i].step \in ProcedureSteps =>
              i > 1 /\ log[i - 1].step = "begin" /\ log[i - 1].ok
        /\ log[i].step = "commit" =>
              i > 1 /\ log[i - 1].step \in ProcedureSteps /\ log[i - 1].ok

\* some createEnvironment, createIndex or delete_environment commits in this step
CommitStep ==
    \/ \E r \in Runs : runs[r].pc = "commit" /\ runs'[r].pc = "done"
    \/ \E c \in Clients :
          /\ reqs[c].op \in {"index", "delete"}
          /\ reqs[c].pc = "commit"
          /\ reqs'[c].pc = "done"

\* C30: createEnvironment, createIndex and delete_environment call the store's
\* procedure in a transaction they have begun and that is still open; when the call
\* fails, it is the last call of the request, no commit is made, no row of the
\* request is stored and the connection is back in the pool; and the Environment and
\* Index rows change only in a step in which one of the three commits
C30_FailedCallLeavesRows ==
    /\ [](/\ \A r \in Runs :
                /\ InsideTransaction(runs[r].log)
                /\ runs[r].pc \in {"store", "commit"} => runs[r].tx # "none"
                /\ ProcedureFailed(runs[r].log) =>
                      /\ Last(runs[r].log).step = "store"
                      /\ runs[r].pc = "failed"
                      /\ runs[r].error \in StoreErrors
                      /\ runs[r].tx = "none"
                      /\ RowsOf(r) = {}
          /\ \A c \in Clients :
                reqs[c].op \in {"index", "delete"} =>
                    /\ InsideTransaction(reqs[c].log)
                    /\ reqs[c].pc \in ProcedureSteps \cup {"commit"} => reqs[c].conns = 1
                    /\ ProcedureFailed(reqs[c].log) =>
                          /\ Last(reqs[c].log).step \in ProcedureSteps
                          /\ reqs[c].pc = "failed"
                          /\ reqs[c].error \in StoreErrors
                          /\ reqs[c].conns = 0
                          /\ IndexRowsOf(c) = {})
    /\ [][(store' # store \/ indexes' # indexes) => CommitStep]_vars

\* the procedure call failed in a createEnvironment, in a createIndex and in a
\* delete_environment of a stored environment, and the store holds its rows
C30_Witness ==
    /\ \E r \in Runs : ProcedureFailed(runs[r].log)
    /\ \E c \in Clients : reqs[c].op = "index" /\ ProcedureFailed(reqs[c].log)
    /\ \E c \in Clients :
          /\ reqs[c].op = "delete"
          /\ ProcedureFailed(reqs[c].log)
          /\ EnvironmentExists(reqs[c].environment)
    /\ indexes # <<>>

\* C31: no step of a delete_environment changes the engine's networks, containers
\* and images or the host's ports; after the delete of an environment that a run of
\* this lifetime stored, the row is gone and the run's network and the container of
\* every configured service, running, are still in the engine
C31_DeleteKeepsEngine ==
    /\ [](\A c \in Clients :
            (reqs[c].op = "delete" /\ reqs[c].pc = "done") =>
                /\ reqs[c].response.kind = "ok"
                /\ ~EnvironmentExists(reqs[c].environment)
                /\ \A r \in Runs :
                      (r = reqs[c].environment /\ runs[r].response = "ok") =>
                          /\ \E i \in NetworksOf(r) : networks[i].id = runs[r].network_id
                          /\ \A k \in DOMAIN runs[r].config :
                                \E x \in ContainersOf(r) :
                                    x.service = runs[r].config[k].service /\ x.running)
    /\ [][\A c \in Clients :
            (reqs'[c].op = "delete" /\ reqs'[c] # reqs[c]) => UNCHANGED Engine]_vars

\* the environment that the createEnvironment of this lifetime stored was deleted
C31_Witness ==
    \E c \in Clients :
        /\ reqs[c].op = "delete"
        /\ reqs[c].pc = "done"
        /\ reqs[c].environment \in Runs
        /\ runs[reqs[c].environment].response = "ok"
        /\ ContainersOf(reqs[c].environment) # {}

-----------------------------------------------------------------------------
(* Properties of the IndexStatus conversions (SpecStatus) *)

\* C34: each of the two enums has 13 values; a conversion takes every status into
\* the other enum, different statuses to different ones, and every value of the other
\* enum is the conversion of some status; converting back gives the status the
\* conversion started from
C34_StatusRoundTrip ==
    Called("status") =>
        /\ Cardinality(StatusesOf("db")) = 13
        /\ Cardinality(StatusesOf("api")) = 13
        /\ \A i \in DOMAIN ret.converted : ret.converted[i] \in StatusesOf(BackFrom(arg.to))
        /\ (arg.statuses[1] # arg.statuses[2]) => (ret.converted[1] # ret.converted[2])
        /\ {StatusInto(arg.to, x) : x \in StatusesOf(arg.to)} = StatusesOf(BackFrom(arg.to))
        /\ ret.back # <<>> => ret.back = arg.statuses

\* the last and the first status of the API's enum converted to the store's and back
C34_Witness ==
    /\ Called("status")
    /\ arg.to = "db"
    /\ arg.statuses = <<"Available", "NotAvailable">>
    /\ ret.converted = <<"available", "not_available">>
    /\ ret.back = <<"Available", "NotAvailable">>

-----------------------------------------------------------------------------
(* Properties of the port allocator (SpecPort) *)

\* the window B..B+98 of the call, when all of it is inside the 16-bit port range
Window == arg.base..(arg.base + ScanLen - 1)
WindowFits == arg.base + ScanLen <= U16Max

\* C3: whenever some port of B..B+98 is free, get_available_port(B) returns the first
\* free port at or after B: it is free, and every port from B up to it is occupied
C3_FirstFreePort ==
    (Called("port") /\ WindowFits /\ \E p \in Window : p \notin arg.occ) =>
        /\ ret.kind = "ok"
        /\ ret.value >= arg.base
        /\ ret.value \notin arg.occ
        /\ \A q \in arg.base..(ret.value - 1) : q \in arg.occ

\* C5: a port get_available_port(B) returns is a port of B..B+98 that the scan bound
\* and found free, and with all of B..B+98 occupied the call returns no port
C5_ReturnedPortWasProbedFree ==
    (Called("port") /\ WindowFits) =>
        /\ ret.kind = "ok" =>
              /\ ret.value \in Window
              /\ ret.value \in ProbedPorts(arg.base, arg.occ)
              /\ ret.value \notin arg.occ
        /\ Window \subseteq arg.occ => ret.kind # "ok"

\* the last port the scan found occupied
LastFailed == CHOOSE p \in FailedPorts(arg.base, arg.occ) :
                  \A q \in FailedPorts(arg.base, arg.occ) : q <= p

\* C33: for every base B the scan bound B + 99 and the returned port, the last
\* occupied port + 1, are computed within 16 bits: neither sum exceeds 65535
C33_NoOverflow ==
    Called("port") =>
        /\ arg.base + ScanLen <= U16Max
        /\ U16Add(arg.base, ScanLen) = arg.base + ScanLen
        /\ ret.kind = "ok" =>
              /\ LastFailed + 1 <= U16Max
              /\ ret.value = LastFailed + 1

-----------------------------------------------------------------------------
(* Properties of the network allocator (SpecNet) *)

\* the list of second octets the allocator works on
Ids == ParseIds(arg.subnets)
IdSet == {Ids[i] : i \in DOMAIN Ids}

Min(S) == CHOOSE x \in S : \A y \in S : x <= y

\* the i-th smallest element of S, counting from 0
Ith(S, i) == CHOOSE x \in S : Cardinality({y \in S : y < x}) = i

\* the offsets i at which m + i is smaller than the i-th smallest element
GapOffsets(S) == {i \in 0..(Cardinality(S) - 1) : Min(S) + i < Ith(S, i)}

\* C6: for a non-empty list of distinct second octets S with minimum m the allocator
\* returns m + i for the smallest offset i with m + i below the i-th smallest element
\* of S, and m + |S| when there is none; {16,17,19} gives 18, {16,17,18} gives 19 and
\* {5} gives 6
C6_GapWalk ==
    (Called("net") /\ Ids # <<>> /\ Cardinality(IdSet) = Len(Ids)) =>
        /\ ret.kind = "ok"
        /\ ret.value = IF GapOffsets(IdSet) # {}
                       THEN Min(IdSet) + Min(GapOffsets(IdSet))
                       ELSE Min(IdSet) + Cardinality(IdSet)
        /\ ret.base = FormatBase(ret.value)
        /\ IdSet = {16, 17, 19} => ret.value = 18
        /\ IdSet = {16, 17, 18} => ret.value = 19
        /\ IdSet = {5} => ret.value = 6

C6_Witness ==
    /\ Called("net")
    /\ Ids = <<19, 16, 17>>
    /\ ret.value = 18

\* the smallest integer at or above the minimum of S that is not in S
FirstMissing(S) ==
    CHOOSE n \in Min(S)..(Min(S) + Cardinality(S)) :
        n \notin S /\ \A m \in Min(S)..(n - 1) : m \in S

\* C22: for every non-empty list of second octets, duplicates included, the allocator
\* returns the smallest integer at or above the list's minimum that is not in the
\* list; 16, 17, 17 gives 18
C22_FirstAvailableOctet ==
    (Called("net") /\ Ids # <<>>) =>
        /\ ret.kind = "ok"
        /\ ret.value = FirstMissing(IdSet)
        /\ Ids = <<16, 17, 17>> => ret.value = 18

\* the range of an octet of an IPv4 address
Octets == 0..255

\* C32: for every non-empty list of second octets in 0..255 the allocator returns an
\* octet in 0..255
C32_OctetInRange ==
    (Called("net") /\ Ids # <<>> /\ IdSet \subseteq Octets) =>
        /\ ret.kind = "ok"
        /\ ret.value \in Octets

\* the second octets of the listed subnets that have the form 172.N.0.0/16
ExistingOctets == {n \in 0..255 : \E i \in DOMAIN arg.subnets :
                                      arg.subnets[i] = FormatSubnet(FormatBase(n))}

\* C7: the octet the allocator returns is the second octet of none of the existing
\* subnets, whatever their order and with duplicates among them
C7_ResultNotInUse ==
    (Called("net") /\ ExistingOctets # {} /\ ret.kind = "ok") =>
        ret.value \notin ExistingOctets

====
